---- MODULE Spec2Model ----
(***************************************************************************)
(* Model of ros2_installer_cli.py: the command executor (_run_command),    *)
(* the validator (validate_system), the native and the container install   *)
(* pipelines (install_ros2) and the rollback guard (_rollback_on_failure). *)
(*                                                                         *)
(* Strings are modelled as sequences of tokens; an optional Python value   *)
(* (None or a number) is modelled as a set with at most one element.       *)
(***************************************************************************)
EXTENDS Integers, Sequences, FiniteSets, TLC

VARIABLES
    config,              \* self.config (the sections the orchestrator reads)
    system_info,         \* self.system_info, the snapshot gathered at construction
    env,                 \* what the run reads of its environment (euid, SUDO_USER, lsb_release)
    pre,                 \* log: the host files and packages before the run
    pc,                  \* position of the run inside main / install_ros2
    ex,                  \* frame of the _run_command invocation being stepped
    installation_state,  \* self.installation_state, the mutation journal
    initial_state,       \* the snapshot _rollback_on_failure takes on entry
    packages_installed,  \* the local packages_installed of _install_ros2_native
    files,               \* host files the run reads or writes: path -> content
    hostpkgs,            \* the host package database (names of installed packages)
    docker,              \* the container runtime on the host and what the run built in it
    exc,                 \* the exception propagating out of the failed step
    result,              \* the InstallationResult, once produced
    exit_code,           \* the status main hands to sys.exit, once it did
    issued,              \* log: host-mutating commands handed to a subprocess
    rb,                  \* log: what the rollback procedure did
    args,                \* the command line main parses
    config_file,         \* the configuration file at the path of --config
    peer,                \* frame of a second _run_command invocation running at the same time
    timer                \* time.time() and the deadline of _wait_for_docker_daemon

vars == <<config, system_info, env, pre, pc, ex, installation_state, initial_state,
          packages_installed, files, hostpkgs, docker, exc, result, exit_code,
          issued, rb, args, config_file, peer, timer>>

\* what the pipelines never write
inputs == <<config, system_info, env, pre, args, config_file, peer, timer>>

-----------------------------------------------------------------------------
(* Bounds of the model *)

MaxRetries == 2
MaxOptional == 2
MaxRuns == 3
MaxPathLen == 3

-----------------------------------------------------------------------------
(* Optional values and sequences *)

None == {}
Some(v) == {v}
Val(o) == CHOOSE v \in o : TRUE
\* Python truthiness of an optional number: None and 0 are falsy
Truthy(o) == o # None /\ o # Some(0)
\* dict.get(key, default)
Get(o, default) == IF o = None THEN default ELSE Val(o)

Range(s) == {s[i] : i \in 1..Len(s)}
Prefix(s, n) == SubSeq(s, 1, IF n < Len(s) THEN n ELSE Len(s))

Pow2_Linear(n) == n + 1
\* 2 ** attempt
RECURSIVE Pow2(_)
Pow2(n) == IF n <= 0 THEN 1 ELSE 2 * Pow2(n - 1)

-----------------------------------------------------------------------------
(* Command executor: _run_command *)

DefaultTimeout == 300
DefaultRetries == 3

\* One run of the command under subprocess.run(check=True, timeout=...):
\* how long it would take and the exit status it would end with.
Durations == {1, 2000}
Attempts == [dur : Durations, exit : {0, 1}]

\* subprocess.run: TimeoutExpired when the command outlives the timeout,
\* CalledProcessError on a nonzero exit, the CompletedProcess otherwise
AttemptOutcome(att, timeout) ==
    IF att.dur > timeout THEN "TimeoutExpired"
    ELSE IF att.exit # 0 THEN "CalledProcessError"
    ELSE "ok"

UsesPackageManager_Always(command) == TRUE
\* 'apt-get' in command or 'dpkg' in command
UsesPackageManager(command) ==
    \E i \in 1..Len(command) : command[i] \in {"apt-get", "dpkg"}

EffectiveTimeout(timeout, cfg) ==
    IF Truthy(timeout) THEN Val(timeout)
    ELSE Get(cfg.timeout_seconds, DefaultTimeout)

EffectiveRetries(retries, cfg) ==
    IF Truthy(retries) THEN Val(retries)
    ELSE Get(cfg.retry_attempts, DefaultRetries)

\* the clock at the start of the run, no deadline set
NoTimer == [now |-> 0, deadline |-> 0]

NoExc == [type |-> "none", command |-> <<>>, attempt |-> 0]

IdleFrame ==
    [status |-> "idle", command |-> <<>>, timeout |-> 0, retries |-> 0,
     attempt |-> 0, tries |-> 0, oks |-> 0, last |-> "none",
     cleanups |-> 0, slept |-> <<>>, exc |-> NoExc]

\* The frame on entry of the for loop; range(retries) is empty when
\* retries <= 0, and the function then ends without a return statement.
NewFrame(command, timeout, retries, cfg) ==
    LET n == EffectiveRetries(retries, cfg) IN
    [IdleFrame EXCEPT
        !.status = IF n <= 0 THEN "none" ELSE "running",
        !.command = command,
        !.timeout = EffectiveTimeout(timeout, cfg),
        !.retries = n]

RaisesAfter_First(f) == f.attempt = 0
\* if attempt == retries - 1: raise
RaisesAfter(f) == f.attempt = f.retries - 1

\* One iteration of the for loop, the command behaving as att
Iterate(f, att) ==
    LET o == AttemptOutcome(att, f.timeout) IN
    IF o = "ok"
    THEN [f EXCEPT !.status = "returned", !.tries = @ + 1, !.oks = @ + 1,
                   !.last = o]
    ELSE LET g == [f EXCEPT
                    !.tries = @ + 1,
                    !.last = o,
                    !.cleanups = IF UsesPackageManager(f.command) THEN @ + 1 ELSE @,
                    !.exc = [type |-> o, command |-> f.command,
                             attempt |-> f.attempt]]
         IN IF RaisesAfter(g)
            THEN [g EXCEPT !.status = "raised"]
            ELSE LET h == [g EXCEPT !.slept = Append(@, Pow2(g.attempt)),
                                    !.attempt = @ + 1]
                 IN IF h.attempt < h.retries THEN h
                    ELSE [h EXCEPT !.status = "none"]

\* The whole invocation, the command behaving as beh[k] at attempt k
RECURSIVE RunFrame(_, _)
RunFrame(f, beh) ==
    IF f.status # "running" THEN f
    ELSE RunFrame(Iterate(f, beh[f.attempt]), beh)

Behaviours == [0..(MaxRetries - 1) -> Attempts]

RunCommand(command, timeout, retries, cfg, beh) ==
    RunFrame(NewFrame(command, timeout, retries, cfg), beh)

-----------------------------------------------------------------------------
(* Validator: validate_system *)

DefaultMinDisk == 4
DefaultMinMemory == 2
DefaultArchitectures == {"amd64", "arm64", "aarch64", "x86_64"}

DefaultRequiredVersion == "24.04"

PrivilegeRequired_Always(si) == TRUE
\* the sudo check sits in the `if self._is_ubuntu()` branch
PrivilegeRequired(si) == si.is_ubuntu

\* the warning of the Ubuntu branch: lsb_release -rs answered, and the
\* required version is not in the answer
VersionMismatch(si, en, cfg) ==
    /\ si.is_ubuntu
    /\ en.lsb_release # ""
    /\ en.lsb_release # Get(cfg.required_ubuntu_version, DefaultRequiredVersion)

\* The issues list validate_system builds, in the order it appends to it;
\* docker_available is what _check_docker_installed answers on the other branch
ValidationIssues(si, en, cfg, docker_available) ==
    (IF si.disk_space_gb < Get(cfg.min_disk_space_gb, DefaultMinDisk)
     THEN <<"Insufficient disk space">> ELSE <<>>)
    \o (IF si.memory_gb < Get(cfg.min_memory_gb, DefaultMinMemory)
        THEN <<"Insufficient memory">> ELSE <<>>)
    \o (IF si.architecture \notin Get(cfg.supported_architectures, DefaultArchitectures)
        THEN <<"Unsupported architecture">> ELSE <<>>)
    \o (IF PrivilegeRequired(si) /\ en.euid # 0
        THEN <<"Script must be run with sudo privileges">> ELSE <<>>)

ValidateSystem_AlwaysPasses(si, en, cfg, docker_available) == TRUE
\* validate_system returns False iff issues is non-empty
ValidateSystem(si, en, cfg, docker_available) ==
    ValidationIssues(si, en, cfg, docker_available) = <<>>

IsDockerMode_Never(si) == FALSE
\* _is_docker_mode
IsDockerMode(si) == ~si.is_ubuntu

-----------------------------------------------------------------------------
(* Host files, packages and the commands of the native pipeline *)

SessionId == "5f3a9c1e"
BashrcPath == <<"/home/user/", ".bashrc">>
\* f"{bashrc_path}.backup.{self.session_id}"
BackupPathOf(path, sid) == path \o <<".backup.", sid>>
BackupPath == BackupPathOf(BashrcPath, SessionId)
RepoListPath == <<"/etc/apt/sources.list.d/", "ros2.list">>
KeyringPath == <<"/usr/share/keyrings/", "ros-archive-keyring.gpg">>
Paths == {BashrcPath, BackupPath, RepoListPath, KeyringPath}

Absent == [exists |-> FALSE, content |-> <<>>]
File(content) == [exists |-> TRUE, content |-> content]

OriginalFileOf_FirstOccurrence(backup_file) ==
    LET at == {i \in 1..Len(backup_file) : backup_file[i] = ".backup."} IN
    IF at = {} THEN backup_file
    ELSE SubSeq(backup_file, 1, (CHOOSE i \in at : \A j \in at : i <= j) - 1)
\* backup_file.rsplit('.backup.', 1)[0]
OriginalFileOf(backup_file) ==
    LET at == {i \in 1..Len(backup_file) : backup_file[i] = ".backup."} IN
    IF at = {} THEN backup_file
    ELSE SubSeq(backup_file, 1, (CHOOSE i \in at : \A j \in at : j <= i) - 1)

Ros2SetupBlock == "source /opt/ros/kilted/setup.bash"
\* f"source /opt/ros/{distro}/setup.bash" in content
HasSetupLine_Never(content) == FALSE
\* f"source /opt/ros/{distro}/setup.bash" in content
HasSetupLine(content) == Ros2SetupBlock \in Range(content)

EssentialPackages ==
    <<"software-properties-common", "curl", "wget", "gnupg2",
      "lsb-release", "apt-transport-https", "ca-certificates">>

MainPackages_CoreOnly(package_set) == <<"ros-kilted-ros-core">>
\* the packages list _install_packages builds from package_set
MainPackages(package_set) ==
    IF package_set = "minimal"
    THEN <<"ros-kilted-ros-core", "ros-kilted-ros2cli">>
    ELSE IF package_set = "base"
    THEN <<"ros-kilted-ros-base", "ros-kilted-ros2cli",
           "ros-kilted-demo-nodes-cpp", "ros-kilted-demo-nodes-py">>
    ELSE IF package_set = "desktop"
    THEN <<"ros-kilted-desktop", "ros-kilted-rviz2">>
    ELSE <<"ros-kilted-desktop-full">>

InstallsAdditional(package_set) == package_set \in {"desktop", "desktop-full"}

AdditionalPackages ==
    Prefix(<<"ros-kilted-gazebo-ros-pkgs", "ros-kilted-navigation2",
             "ros-kilted-moveit", "ros-kilted-slam-toolbox",
             "ros-kilted-robot-localization">>, MaxOptional)

DevPackages ==
    Prefix(<<"python3-rosdep", "python3-colcon-common-extensions",
             "python3-vcstool", "python3-argcomplete",
             "python3-flake8", "python3-pytest">>, MaxOptional)

FullTimeout == 1200
VerifyTimeout == 30

\* timeout = 1200 if package_set == 'desktop-full' else None
MainInstallTimeout(package_set) ==
    IF package_set = "desktop-full" THEN Some(FullTimeout) ELSE None

AptUpdate == <<"sudo", "apt-get", "update">>
AptInstall(packages) == <<"sudo", "apt-get", "install", "-y">> \o packages
AptRemove(packages) == <<"sudo", "apt-get", "remove", "-y">> \o packages
AptAutoremoveRos == <<"sudo", "apt-get", "autoremove", "-y", "'ros-*'">>
AptAutoremove == <<"sudo", "apt-get", "autoremove", "-y">>
CurlKey == <<"sudo", "curl", "-sSL", "ros.key", "-o">> \o KeyringPath
TeeRepo == <<"echo", "repo_line", "|", "sudo", "tee">> \o RepoListPath
RosdepInit == <<"sudo", "rosdep", "init">>
RosdepUpdate == <<"sudo", "-u", "user", "rosdep", "update">>
CopyFile(src, dst) == <<"cp">> \o src \o dst
Chown(path) == <<"chown", "user:user">> \o path
TestRos2 == <<"bash", "-c", "source setup.bash && ros2 --help">>

\* packages a prior ROS installation left on the host, as
\* dpkg -l | grep -E 'ros-(melodic|...|kilted)' finds them
AllRosPackages ==
    UNION {Range(MainPackages(t)) : t \in {"minimal", "base", "desktop", "desktop-full"}}
    \cup Range(AdditionalPackages) \cup {"ros-humble-desktop"}

\* os.path.exists(f"/opt/ros/{distro}"): the install root the packages of
\* the distribution own
RosPathExists(pkgs) ==
    \E t \in {"minimal", "base", "desktop", "desktop-full"} :
        Range(MainPackages(t)) \cap pkgs # {}

EmptyJournal ==
    [packages_installed |-> <<>>, repositories_added |-> <<>>,
     files_modified |-> <<>>, backup_files |-> <<>>]

NoResult ==
    [produced |-> FALSE, success |-> FALSE, packages_installed |-> 0,
     errors |-> <<>>, warnings |-> <<>>]

NoRollback ==
    [runs |-> 0, completed |-> 0, cause |-> NoExc, removals |-> <<>>,
     renames |-> <<>>, failures |-> 0]

Exception(type, command) == [type |-> type, command |-> command, attempt |-> 0]

-----------------------------------------------------------------------------
(* The command line and the configuration file *)

\* the Namespace parse_args builds from the flags main reads; package_set is
\* the value given to --package-set, if any
Flags == {"help", "version", "show_config", "validate_only", "dry_run"}
InstallArgs == [flags |-> {}, package_set |-> None]

\* required_sections and valid_distros of _validate_configuration
RequiredSections_OnlyInstallation == {"installation"}
RequiredSections == {"installation", "logging"}
ValidDistros == {"kilted", "jazzy", "iron", "humble", "rolling"}
\* config['installation'].get('ros_distro', 'kilted')
DefaultDistro == "kilted"

\* A configuration document: whether it parses, its top-level sections, and
\* of the installation section the distribution ("" when the key is absent),
\* the tier and the retry ceiling.
Document(wellformed, sections, ros_distro, package_set, retry_attempts) ==
    [wellformed |-> wellformed, sections |-> sections, ros_distro |-> ros_distro,
     package_set |-> package_set, retry_attempts |-> retry_attempts]

\* the document _create_default_config writes, its retry ceiling at the bound
\* of the model
DefaultDocument ==
    Document(TRUE, {"installation", "system", "logging", "validation",
                    "performance", "security", "docker"},
             "kilted", "desktop-full", Some(MaxRetries))

NoDocument == Document(FALSE, {}, "", "", None)

\* the file: suffix is what config_path.suffix selects the parser by
ConfigFile(suffix, doc) == [exists |-> TRUE, suffix |-> suffix, doc |-> doc]
NoConfigFile == [exists |-> FALSE, suffix |-> "yaml", doc |-> NoDocument]

-----------------------------------------------------------------------------
(* Initial states: the installer object after construction, before main     *)
(* calls install_ros2                                                       *)

Tiers == {"minimal", "base", "desktop", "desktop-full"}

\* the switches of the configuration _create_default_config writes; the retry
\* ceiling is the bound of the model, and the keys whose written value is the
\* default the code falls back on are left out
DefaultConfig ==
    [retry_attempts |-> Some(MaxRetries),
     timeout_seconds |-> None,
     package_set |-> "desktop-full",
     uninstall_existing |-> TRUE,
     update_system |-> TRUE,
     install_dependencies |-> TRUE,
     backup_configs |-> TRUE,
     min_disk_space_gb |-> None,
     min_memory_gb |-> None,
     supported_architectures |-> None,
     required_ubuntu_version |-> None]

RetryChoices == {Some(n) : n \in 0..MaxRetries}

UserContent == "# user settings"
DefaultBashrc == [exists |-> TRUE, content |-> <<UserContent>>]
InitialBashrc ==
    {[exists |-> FALSE, content |-> <<>>], DefaultBashrc,
     [exists |-> TRUE, content |-> <<UserContent, Ros2SetupBlock>>]}

\* What a run starts from: the configuration, whether SUDO_USER is set, the
\* shell profile and the packages already on the host. Every retry ceiling is
\* combined with every value of the fields one group of steps reads, the
\* other fields staying at their defaults.
Scenario(cfg, sudo_user, bashrc, pkgs) ==
    [config |-> cfg, sudo_user |-> sudo_user, bashrc |-> bashrc, pkgs |-> pkgs]

Scenarios ==
    {Scenario([DefaultConfig EXCEPT !.retry_attempts = r, !.update_system = u,
                   !.install_dependencies = d, !.uninstall_existing = x],
              TRUE, DefaultBashrc, pkgs) :
        r \in RetryChoices, u \in BOOLEAN, d \in BOOLEAN, x \in BOOLEAN,
        pkgs \in {{}, {"ros-humble-desktop"}}}
    \cup
    {Scenario([DefaultConfig EXCEPT !.retry_attempts = r, !.package_set = t],
              TRUE, DefaultBashrc, {}) :
        r \in RetryChoices, t \in Tiers}
    \cup
    {Scenario([DefaultConfig EXCEPT !.retry_attempts = r, !.backup_configs = b],
              u, bashrc, {}) :
        r \in RetryChoices, b \in BOOLEAN, u \in BOOLEAN, bashrc \in InitialBashrc}

\* snapshots: a native-capable host (Ubuntu) or a container-required one,
\* with enough free disk or not
Snapshots ==
    [is_ubuntu : BOOLEAN, architecture : {"x86_64"},
     memory_gb : {8}, disk_space_gb : {3, 50}]

NoDocker ==
    [installed |-> FALSE, running |-> FALSE, dockerfile |-> FALSE,
     image |-> FALSE, container |-> FALSE, wrapper |-> FALSE]

\* the runtime on the host before the run: absent, installed, installed and
\* reachable, with or without a container of the configured name left by an
\* earlier run
InitialDocker ==
    {[NoDocker EXCEPT !.installed = i, !.running = r, !.container = c] :
        i \in BOOLEAN, r \in BOOLEAN, c \in BOOLEAN}

Label(l) == [at |-> l, i |-> 1]

\* a native-capable host that passes validation: every scenario
InitNative ==
    /\ system_info = [is_ubuntu |-> TRUE, architecture |-> "x86_64",
                      memory_gb |-> 8, disk_space_gb |-> 50]
    /\ \E s \in Scenarios :
          /\ config = s.config
          /\ env = [euid |-> 0, sudo_user |-> s.sudo_user, lsb_release |-> "24.04"]
          /\ files = [p \in Paths |-> IF p = BashrcPath THEN s.bashrc ELSE Absent]
          /\ hostpkgs = s.pkgs
    /\ docker = NoDocker

\* every snapshot and privilege, container-required hosts included, under
\* the default configuration
InitAnyHost ==
    /\ system_info \in Snapshots
    /\ config = DefaultConfig
    /\ env \in [euid : {0, 1000}, sudo_user : {TRUE}, lsb_release : {"24.04"}]
    /\ files = [p \in Paths |-> IF p = BashrcPath THEN DefaultBashrc ELSE Absent]
    /\ hostpkgs = {}
    /\ docker \in {d \in InitialDocker :
                     /\ d.running => d.installed
                     /\ d.container => d.installed
                     /\ system_info.is_ubuntu => d = NoDocker}

Init ==
    /\ InitNative \/ InitAnyHost
    /\ args = InstallArgs
    /\ config_file = ConfigFile("yaml", DefaultDocument)
    /\ pre = [files |-> files, hostpkgs |-> hostpkgs, docker |-> docker,
              config_file |-> config_file]
    /\ exit_code = None
    /\ pc = Label("install_ros2")
    /\ ex = IdleFrame
    /\ peer = IdleFrame
    /\ timer = NoTimer
    /\ installation_state = EmptyJournal
    /\ initial_state = EmptyJournal
    /\ packages_installed = 0
    /\ exc = NoExc
    /\ result = NoResult
    /\ issued = {}
    /\ rb = NoRollback

-----------------------------------------------------------------------------
(* install_ros2: validation, confirmation, entry of the rollback guard *)

\* the outcomes _run_command can have at a call site of the pipelines, which
\* all leave retries at None
Calls(command, timeout) ==
    {RunCommand(command, timeout, None, config, beh) : beh \in Behaviours}

Raised(r) == r.status = "raised"
Ran(r) == r.status = "returned"

Goto(l) == pc' = Label(l)

RaiseInGuard_NoRollback(e) == exc' = e /\ Goto("except")
RaiseInGuard_Continues(e) == exc' = e /\ Goto("verify")
\* an exception leaving a step inside `with self._rollback_on_failure()`
RaiseInGuard(e) == exc' = e /\ Goto("rollback")

RaiseToPipeline_Continues(e) == exc' = e /\ Goto("docker_create")
\* an exception caught by the except clause of the pipeline itself
RaiseToPipeline(e) == exc' = e /\ Goto("except")

FailedResult_NoErrors(errors, n) ==
    [produced |-> TRUE, success |-> FALSE, packages_installed |-> n,
     errors |-> <<>>, warnings |-> <<>>]
FailedResult(errors, n) ==
    [produced |-> TRUE, success |-> FALSE, packages_installed |-> n,
     errors |-> errors, warnings |-> <<>>]

Validate ==
    /\ pc.at = "install_ros2"
    /\ IF ValidateSystem(system_info, env, config, docker.installed)
       THEN Goto("confirm") /\ UNCHANGED exc
       ELSE RaiseToPipeline(Exception("ValidationError", <<>>))
    /\ UNCHANGED <<inputs, exit_code, ex, installation_state, initial_state,
                   packages_installed, files, hostpkgs, docker, result, issued, rb>>

\* prompt_user_confirmation, then either the cancelled result or the first
\* step; the native pipeline enters the guard, which copies the journal
Confirm ==
    /\ pc.at = "confirm"
    /\ \E silent \in BOOLEAN, response \in {"y", "yes", "n", ""} :
        IF silent \/ response \in {"y", "yes"}
        THEN /\ Goto(IF IsDockerMode(system_info) THEN "docker_install"
                     ELSE "update_system")
             /\ initial_state' = IF IsDockerMode(system_info) THEN initial_state
                                 ELSE installation_state
             /\ UNCHANGED result
        ELSE /\ Goto("done")
             /\ result' = FailedResult(<<Exception("Cancelled", <<>>)>>, 0)
             /\ UNCHANGED initial_state
    /\ UNCHANGED <<inputs, exit_code, ex, installation_state,
                   packages_installed, files, hostpkgs, docker, exc, issued, rb>>

-----------------------------------------------------------------------------
(* Native pipeline, one action per _run_command call site *)

\* _update_system: apt-get update
UpdateIndex ==
    /\ pc.at = "update_system"
    /\ IF ~config.update_system
       THEN Goto("uninstall") /\ UNCHANGED <<exc, issued>>
       ELSE \E r \in Calls(AptUpdate, None) :
              /\ issued' = issued \cup {AptUpdate}
              /\ IF Raised(r) THEN RaiseInGuard(r.exc)
                 ELSE /\ Goto(IF config.install_dependencies
                              THEN "install_essentials" ELSE "uninstall")
                      /\ UNCHANGED exc
    /\ UNCHANGED <<inputs, exit_code, ex, installation_state, initial_state,
                   packages_installed, files, hostpkgs, docker, result, rb>>

\* _update_system: the essential packages, which no journal entry records
InstallEssentials ==
    /\ pc.at = "install_essentials"
    /\ \E r \in Calls(AptInstall(EssentialPackages), None) :
          /\ issued' = issued \cup {AptInstall(EssentialPackages)}
          /\ hostpkgs' = IF Ran(r) THEN hostpkgs \cup Range(EssentialPackages)
                         ELSE hostpkgs
          /\ IF Raised(r) THEN RaiseInGuard(r.exc)
             ELSE Goto("uninstall") /\ UNCHANGED exc
    /\ UNCHANGED <<inputs, exit_code, ex, installation_state, initial_state,
                   packages_installed, files, docker, result, rb>>

RemoveExistingRos_Propagates ==
    /\ pc.at = "uninstall"
    /\ IF ~config.uninstall_existing \/ hostpkgs \cap AllRosPackages = {}
       THEN Goto("repos_key") /\ UNCHANGED <<hostpkgs, issued, exc>>
       ELSE \E r \in Calls(AptAutoremoveRos, None) :
              /\ issued' = issued \cup {AptAutoremoveRos}
              /\ hostpkgs' = IF Ran(r) THEN hostpkgs \ AllRosPackages ELSE hostpkgs
              /\ IF Raised(r) THEN RaiseInGuard(r.exc)
                 ELSE Goto("autoremove") /\ UNCHANGED exc
    /\ UNCHANGED <<inputs, exit_code, ex, installation_state, initial_state,
                   packages_installed, files, docker, result, rb>>

\* _uninstall_existing_ros up to its first command; the try block of the
\* function catches what the command raises
RemoveExistingRos ==
    /\ pc.at = "uninstall"
    /\ IF ~config.uninstall_existing \/ hostpkgs \cap AllRosPackages = {}
       THEN Goto("repos_key") /\ UNCHANGED <<hostpkgs, issued>>
       ELSE \E r \in Calls(AptAutoremoveRos, None) :
              /\ issued' = issued \cup {AptAutoremoveRos}
              /\ hostpkgs' = IF Ran(r) THEN hostpkgs \ AllRosPackages ELSE hostpkgs
              /\ Goto(IF Raised(r) THEN "repos_key" ELSE "autoremove")
    /\ UNCHANGED <<inputs, exit_code, ex, installation_state, initial_state,
                   packages_installed, files, docker, exc, result, rb>>

\* _uninstall_existing_ros: apt-get autoremove, caught the same way
Autoremove ==
    /\ pc.at = "autoremove"
    /\ \E r \in Calls(AptAutoremove, None) :
          /\ issued' = issued \cup {AptAutoremove}
          /\ Goto("repos_key")
    /\ UNCHANGED <<inputs, exit_code, ex, installation_state, initial_state,
                   packages_installed, files, hostpkgs, docker, exc, result, rb>>

\* _setup_repositories: the signing key
AddSigningKey ==
    /\ pc.at = "repos_key"
    /\ IF ~config.install_dependencies
       THEN Goto("packages_main") /\ UNCHANGED <<files, exc, issued>>
       ELSE \E r \in Calls(CurlKey, None) :
              /\ issued' = issued \cup {CurlKey}
              /\ files' = IF Ran(r)
                          THEN [files EXCEPT ![KeyringPath] = File(<<"ros.key">>)]
                          ELSE files
              /\ IF Raised(r) THEN RaiseInGuard(r.exc)
                 ELSE Goto("repos_list") /\ UNCHANGED exc
    /\ UNCHANGED <<inputs, exit_code, ex, installation_state, initial_state,
                   packages_installed, hostpkgs, docker, result, rb>>

\* _setup_repositories: the repository definition file
AddRepository ==
    /\ pc.at = "repos_list"
    /\ \E r \in Calls(TeeRepo, None) :
          /\ issued' = issued \cup {TeeRepo}
          /\ files' = IF Ran(r)
                      THEN [files EXCEPT ![RepoListPath] = File(<<"repo_line">>)]
                      ELSE files
          /\ IF Raised(r) THEN RaiseInGuard(r.exc)
             ELSE Goto("repos_update") /\ UNCHANGED exc
    /\ UNCHANGED <<inputs, exit_code, ex, installation_state, initial_state,
                   packages_installed, hostpkgs, docker, result, rb>>

\* _setup_repositories: the index refresh, then the journal entry
RefreshIndex ==
    /\ pc.at = "repos_update"
    /\ \E r \in Calls(AptUpdate, None) :
          /\ issued' = issued \cup {AptUpdate}
          /\ IF Raised(r)
             THEN RaiseInGuard(r.exc) /\ UNCHANGED installation_state
             ELSE /\ installation_state' =
                        [installation_state EXCEPT
                            !.repositories_added = Append(@, RepoListPath)]
                  /\ Goto("packages_main")
                  /\ UNCHANGED exc
    /\ UNCHANGED <<inputs, exit_code, ex, initial_state,
                   packages_installed, files, hostpkgs, docker, result, rb>>

\* _install_packages: the packages of the tier, in one command
InstallMainPackages ==
    /\ pc.at = "packages_main"
    /\ LET packages == MainPackages(config.package_set) IN
       \E r \in Calls(AptInstall(packages), MainInstallTimeout(config.package_set)) :
          /\ issued' = issued \cup {AptInstall(packages)}
          /\ hostpkgs' = IF Ran(r) THEN hostpkgs \cup Range(packages) ELSE hostpkgs
          /\ IF Raised(r)
             THEN /\ RaiseInGuard(r.exc)
                  /\ UNCHANGED <<installation_state, packages_installed>>
             ELSE /\ installation_state' =
                        [installation_state EXCEPT !.packages_installed = @ \o packages]
                  /\ IF InstallsAdditional(config.package_set)
                     THEN Goto("packages_extra") /\ UNCHANGED packages_installed
                     ELSE /\ Goto("dev_tools")
                          /\ packages_installed' =
                                Len(installation_state'.packages_installed)
                  /\ UNCHANGED exc
    /\ UNCHANGED <<inputs, exit_code, ex, initial_state,
                   files, docker, result, rb>>

\* _install_packages: one iteration of the loop over additional_packages;
\* the function returns len(packages_installed) after the last one
InstallAdditionalPackage ==
    /\ pc.at = "packages_extra"
    /\ LET package == AdditionalPackages[pc.i] IN
       \E r \in Calls(AptInstall(<<package>>), None) :
          /\ issued' = issued \cup {AptInstall(<<package>>)}
          /\ hostpkgs' = IF Ran(r) THEN hostpkgs \cup {package} ELSE hostpkgs
          /\ installation_state' =
                IF Raised(r) THEN installation_state
                ELSE [installation_state EXCEPT
                        !.packages_installed = Append(@, package)]
          /\ IF pc.i < Len(AdditionalPackages)
             THEN pc' = [pc EXCEPT !.i = @ + 1] /\ UNCHANGED packages_installed
             ELSE /\ Goto("dev_tools")
                  /\ packages_installed' = Len(installation_state'.packages_installed)
    /\ UNCHANGED <<inputs, exit_code, ex, initial_state,
                   files, docker, exc, result, rb>>

InstallDevPackage_Aborts ==
    /\ pc.at = "dev_tools"
    /\ LET package == DevPackages[pc.i] IN
       \E r \in Calls(AptInstall(<<package>>), None) :
          /\ issued' = issued \cup {AptInstall(<<package>>)}
          /\ hostpkgs' = IF Ran(r) THEN hostpkgs \cup {package} ELSE hostpkgs
          /\ IF Raised(r)
             THEN RaiseInGuard(r.exc) /\ UNCHANGED installation_state
             ELSE /\ installation_state' =
                        [installation_state EXCEPT
                            !.packages_installed = Append(@, package)]
                  /\ IF pc.i < Len(DevPackages)
                     THEN pc' = [pc EXCEPT !.i = @ + 1]
                     ELSE Goto("rosdep_init")
                  /\ UNCHANGED exc
    /\ UNCHANGED <<inputs, exit_code, ex, initial_state, packages_installed,
                   files, docker, result, rb>>

\* _setup_development_tools: one iteration of the loop over dev_packages
InstallDevPackage ==
    /\ pc.at = "dev_tools"
    /\ LET package == DevPackages[pc.i] IN
       \E r \in Calls(AptInstall(<<package>>), None) :
          /\ issued' = issued \cup {AptInstall(<<package>>)}
          /\ hostpkgs' = IF Ran(r) THEN hostpkgs \cup {package} ELSE hostpkgs
          /\ installation_state' =
                IF Raised(r) THEN installation_state
                ELSE [installation_state EXCEPT
                        !.packages_installed = Append(@, package)]
          /\ IF pc.i < Len(DevPackages)
             THEN pc' = [pc EXCEPT !.i = @ + 1]
             ELSE Goto("rosdep_init")
    /\ UNCHANGED <<inputs, exit_code, ex, initial_state, packages_installed,
                   files, docker, exc, result, rb>>

\* _setup_development_tools: rosdep init unless its sources list exists
InitRosdep ==
    /\ pc.at = "rosdep_init"
    /\ \E sources_exist \in BOOLEAN :
        IF sources_exist
        THEN Goto("rosdep_update") /\ UNCHANGED <<exc, issued>>
        ELSE \E r \in Calls(RosdepInit, None) :
               /\ issued' = issued \cup {RosdepInit}
               /\ IF Raised(r) THEN RaiseInGuard(r.exc)
                  ELSE Goto("rosdep_update") /\ UNCHANGED exc
    /\ UNCHANGED <<inputs, exit_code, ex, installation_state, initial_state,
                   packages_installed, files, hostpkgs, docker, result, rb>>

\* _setup_development_tools: rosdep update as the invoking user, best effort
UpdateRosdep ==
    /\ pc.at = "rosdep_update"
    /\ IF ~env.sudo_user
       THEN UNCHANGED issued
       ELSE \E r \in Calls(RosdepUpdate, None) : issued' = issued \cup {RosdepUpdate}
    /\ Goto("env_backup")
    /\ UNCHANGED <<inputs, exit_code, ex, installation_state, initial_state,
                   packages_installed, files, hostpkgs, docker, exc, result, rb>>

\* _configure_environment up to the backup of the profile
BackupProfile ==
    /\ pc.at = "env_backup"
    /\ IF ~env.sudo_user
       THEN /\ Goto("verify")
            /\ UNCHANGED <<installation_state, files, exc, issued>>
       ELSE IF files[BashrcPath].exists /\ config.backup_configs
       THEN LET backup_path == BackupPathOf(BashrcPath, SessionId) IN
            \E r \in Calls(CopyFile(BashrcPath, backup_path), None) :
               /\ issued' = issued \cup {CopyFile(BashrcPath, backup_path)}
               /\ files' = IF Ran(r)
                           THEN [files EXCEPT ![backup_path] = files[BashrcPath]]
                           ELSE files
               /\ IF Raised(r)
                  THEN RaiseInGuard(r.exc) /\ UNCHANGED installation_state
                  ELSE /\ installation_state' =
                             [installation_state EXCEPT
                                !.backup_files = Append(@, backup_path)]
                       /\ Goto("env_append")
                       /\ UNCHANGED exc
       ELSE /\ Goto("env_append")
            /\ UNCHANGED <<installation_state, files, exc, issued>>
    /\ UNCHANGED <<inputs, exit_code, ex, initial_state,
                   packages_installed, hostpkgs, docker, result, rb>>

\* _configure_environment: the idempotence check, the append, the chown and
\* the journal entry
AppendSetupBlock ==
    /\ pc.at = "env_append"
    /\ IF files[BashrcPath].exists /\ HasSetupLine(files[BashrcPath].content)
       THEN /\ Goto("verify")
            /\ UNCHANGED <<installation_state, files, exc, issued>>
       ELSE \E r \in Calls(Chown(BashrcPath), None) :
               /\ files' = [files EXCEPT ![BashrcPath] =
                              File(files[BashrcPath].content \o <<Ros2SetupBlock>>)]
               /\ issued' = issued \cup {Chown(BashrcPath)}
               /\ IF Raised(r)
                  THEN RaiseInGuard(r.exc) /\ UNCHANGED installation_state
                  ELSE /\ installation_state' =
                             [installation_state EXCEPT
                                !.files_modified = Append(@, BashrcPath)]
                       /\ Goto("verify")
                       /\ UNCHANGED exc
    /\ UNCHANGED <<inputs, exit_code, ex, initial_state,
                   packages_installed, hostpkgs, docker, result, rb>>

Verify_RequiresKeyPackages ==
    /\ pc.at = "verify"
    /\ IF ~RosPathExists(hostpkgs) \/ "python3-rosdep" \notin hostpkgs
       THEN /\ RaiseInGuard(Exception("InstallationError", <<"python3-rosdep">>))
            /\ UNCHANGED <<result, issued>>
       ELSE \E r \in Calls(TestRos2, Some(VerifyTimeout)) :
               /\ issued' = issued \cup {TestRos2}
               /\ IF Raised(r)
                  THEN /\ RaiseInGuard(Exception("InstallationError", TestRos2))
                       /\ UNCHANGED result
                  ELSE /\ result' = [produced |-> TRUE, success |-> TRUE,
                                     packages_installed |-> packages_installed,
                                     errors |-> <<>>, warnings |-> <<>>]
                       /\ Goto("done")
                       /\ UNCHANGED exc
    /\ UNCHANGED <<inputs, exit_code, ex, installation_state, initial_state,
                   packages_installed, files, hostpkgs, docker, rb>>

\* _verify_installation, then the successful InstallationResult
Verify ==
    /\ pc.at = "verify"
    /\ IF ~RosPathExists(hostpkgs)
       THEN /\ RaiseInGuard(Exception("InstallationError", <<"/opt/ros/kilted">>))
            /\ UNCHANGED <<result, issued>>
       ELSE \E r \in Calls(TestRos2, Some(VerifyTimeout)) :
               /\ issued' = issued \cup {TestRos2}
               /\ IF Raised(r)
                  THEN /\ RaiseInGuard(Exception("InstallationError", TestRos2))
                       /\ UNCHANGED result
                  ELSE /\ result' = [produced |-> TRUE, success |-> TRUE,
                                     packages_installed |-> packages_installed,
                                     errors |-> <<>>, warnings |-> <<>>]
                       /\ Goto("done")
                       /\ UNCHANGED exc
    /\ UNCHANGED <<inputs, exit_code, ex, installation_state, initial_state,
                   packages_installed, files, hostpkgs, docker, rb>>

-----------------------------------------------------------------------------
(* Rollback guard: _rollback_on_failure and _rollback_installation *)

NewPackages_All(current, initial) == Range(current.packages_installed)
\* set(current) - set(initial_state.get('packages_installed', []))
NewPackages(current, initial) ==
    Range(current.packages_installed) \ Range(initial.packages_installed)

\* ' '.join(new_packages): the elements of the set in some order
RECURSIVE Join(_)
Join(S) ==
    IF S = {} THEN <<>>
    ELSE LET x == CHOOSE y \in S : TRUE IN <<x>> \o Join(S \ {x})

\* if new_packages: ...
RemovalNeeded(new_packages) == new_packages # {}

RenameEntry(backup_file, outcome) ==
    [backup |-> backup_file, original |-> OriginalFileOf(backup_file),
     outcome |-> outcome]

RECURSIVE RestoreLoop_StopsAtFailure(_, _, _, _)
RestoreLoop_StopsAtFailure(st, backups, k, fails) ==
    IF k > Len(backups) THEN st
    ELSE LET backup_file == backups[k]
             original_file == OriginalFileOf(backup_file)
         IN IF ~st.files[backup_file].exists
            THEN RestoreLoop_StopsAtFailure(
                    [st EXCEPT !.renames = Append(@, RenameEntry(backup_file, "missing"))],
                    backups, k + 1, fails)
            ELSE IF k \in fails
            THEN [st EXCEPT !.renames = Append(@, RenameEntry(backup_file, "failed")),
                            !.failures = @ + 1]
            ELSE RestoreLoop_StopsAtFailure(
                    [st EXCEPT !.files = [st.files EXCEPT
                                   ![original_file] = st.files[backup_file],
                                   ![backup_file] = Absent],
                               !.renames = Append(@, RenameEntry(backup_file, "renamed"))],
                    backups, k + 1, fails)

\* the loop over backup_files from entry k on, os.rename failing for the
\* entries whose index is in fails; the try block inside the loop catches
\* the failure and the loop goes on. st.renames logs what each iteration did.
RECURSIVE RestoreLoop(_, _, _, _)
RestoreLoop(st, backups, k, fails) ==
    IF k > Len(backups) THEN st
    ELSE LET backup_file == backups[k]
             original_file == OriginalFileOf(backup_file)
         IN IF ~st.files[backup_file].exists
            THEN RestoreLoop(
                    [st EXCEPT !.renames = Append(@, RenameEntry(backup_file, "missing"))],
                    backups, k + 1, fails)
            ELSE IF k \in fails
            THEN RestoreLoop(
                    [st EXCEPT !.renames = Append(@, RenameEntry(backup_file, "failed")),
                               !.failures = @ + 1],
                    backups, k + 1, fails)
            ELSE RestoreLoop(
                    [st EXCEPT !.files = [st.files EXCEPT
                                   ![original_file] = st.files[backup_file],
                                   ![backup_file] = Absent],
                               !.renames = Append(@, RenameEntry(backup_file, "renamed"))],
                    backups, k + 1, fails)

AfterRemoval_Propagates(r, e) == IF Raised(r) THEN r.exc ELSE e
\* except Exception as e: the failure of the removal command is logged as
\* a warning; the exception in flight stays the one the guard caught
AfterRemoval(r, e) == e

RollbackRemovePackages_ForgetsPackages ==
    /\ pc.at = "rollback"
    /\ installation_state' =
          [installation_state EXCEPT
              !.packages_installed = initial_state.packages_installed]
    /\ rb' = [rb EXCEPT !.runs = @ + 1, !.cause = exc]
    /\ Goto("rollback_restore")
    /\ UNCHANGED <<inputs, exit_code, ex, initial_state, packages_installed,
                   files, hostpkgs, docker, exc, result, issued>>

\* _rollback_on_failure logs the exception it caught and calls
\* _rollback_installation, which first removes the packages this run installed
RollbackRemovePackages ==
    /\ pc.at = "rollback"
    /\ LET new_packages == NewPackages(installation_state, initial_state) IN
       IF RemovalNeeded(new_packages)
       THEN \E r \in Calls(AptRemove(Join(new_packages)), None) :
               /\ issued' = issued \cup {AptRemove(Join(new_packages))}
               /\ hostpkgs' = IF Ran(r) THEN hostpkgs \ new_packages ELSE hostpkgs
               /\ exc' = AfterRemoval(r, exc)
               /\ rb' = [rb EXCEPT !.runs = @ + 1,
                                   !.cause = exc,
                                   !.removals = Append(@, new_packages),
                                   !.failures = IF Raised(r) THEN @ + 1 ELSE @]
       ELSE /\ rb' = [rb EXCEPT !.runs = @ + 1, !.cause = exc]
            /\ UNCHANGED <<hostpkgs, exc, issued>>
    /\ Goto("rollback_restore")
    /\ UNCHANGED <<inputs, exit_code, ex, installation_state, initial_state,
                   packages_installed, files, docker, result>>

RollbackRestoreBackups_RemovesRepository ==
    /\ pc.at = "rollback_restore"
    /\ files' = [files EXCEPT ![RepoListPath] = Absent, ![KeyringPath] = Absent]
    /\ rb' = [rb EXCEPT !.completed = @ + 1]
    /\ Goto("except")
    /\ UNCHANGED <<inputs, exit_code, ex, installation_state, initial_state,
                   packages_installed, hostpkgs, docker, exc, result, issued>>

\* _rollback_installation: the restore loop; the context manager then
\* re-raises the exception it caught
RollbackRestoreBackups ==
    /\ pc.at = "rollback_restore"
    /\ LET backups == installation_state.backup_files IN
       \E fails \in SUBSET (1..Len(backups)) :
          LET st == RestoreLoop([files |-> files, renames |-> rb.renames,
                                 failures |-> rb.failures], backups, 1, fails)
          IN /\ files' = st.files
             /\ rb' = [rb EXCEPT !.completed = @ + 1,
                                 !.renames = st.renames,
                                 !.failures = st.failures]
    /\ Goto("except")
    /\ UNCHANGED <<inputs, exit_code, ex, installation_state, initial_state,
                   packages_installed, hostpkgs, docker, exc, result, issued>>

\* the except clause of _install_ros2_native
NativeFailed ==
    /\ pc.at = "except"
    /\ ~IsDockerMode(system_info)
    /\ result' = FailedResult(<<exc>>, packages_installed)
    /\ Goto("done")
    /\ UNCHANGED <<inputs, exit_code, ex, installation_state, initial_state,
                   packages_installed, files, hostpkgs, docker, exc, issued, rb>>

-----------------------------------------------------------------------------
(* Container pipeline: install_ros2_docker; its commands go to             *)
(* subprocess.run directly, once each                                      *)

DockerInstallTimeout == 300
DockerBuildTimeout == 1800
DockerCreateTimeout == 60
DockerVerifyTimeout == 30

DockerInstallCmd == <<"install", "docker">>
DockerBuildCmd == <<"docker", "build", "-t", "ros2-installer/kilted:latest">>
DockerRemoveCmd == <<"docker", "rm", "-f", "ros2-kilted">>
DockerCreateCmd == <<"docker", "create", "--name", "ros2-kilted">>
DockerStartCmd == <<"docker", "start", "ros2-kilted">>
DockerExecCmd == <<"docker", "exec", "ros2-kilted", "ros2 --help">>

\* subprocess.run(cmd, check=True, timeout=t), a single attempt
RunOnce(timeout) == {AttemptOutcome(att, timeout) : att \in Attempts}

\* step 1: _install_docker unless docker --version answers
DockerEnsureInstalled ==
    /\ pc.at = "docker_install"
    /\ IF docker.installed
       THEN Goto("docker_daemon") /\ UNCHANGED <<docker, exc, issued>>
       ELSE \E supported \in BOOLEAN, o \in RunOnce(DockerInstallTimeout),
               up \in BOOLEAN :
             IF ~supported
             THEN /\ RaiseToPipeline(Exception("InstallationError", <<"unsupported">>))
                  /\ UNCHANGED <<docker, issued>>
             ELSE /\ issued' = issued \cup {DockerInstallCmd}
                  /\ IF o # "ok"
                     THEN RaiseToPipeline(Exception(o, DockerInstallCmd))
                          /\ UNCHANGED docker
                     ELSE /\ docker' = [docker EXCEPT !.installed = TRUE,
                                                      !.running = up]
                          /\ IF up THEN Goto("docker_daemon") /\ UNCHANGED exc
                             ELSE RaiseToPipeline(
                                    Exception("InstallationError", <<"daemon">>))
    /\ UNCHANGED <<inputs, exit_code, ex, installation_state, initial_state,
                   packages_installed, files, hostpkgs, result, rb>>

\* step 2: _wait_for_docker_daemon unless docker info answers
DockerEnsureRunning ==
    /\ pc.at = "docker_daemon"
    /\ IF docker.running
       THEN Goto("docker_build") /\ UNCHANGED <<docker, exc>>
       ELSE \E up \in BOOLEAN :
             IF up
             THEN /\ docker' = [docker EXCEPT !.running = TRUE]
                  /\ Goto("docker_build")
                  /\ UNCHANGED exc
             ELSE /\ RaiseToPipeline(Exception("InstallationError", <<"daemon">>))
                  /\ UNCHANGED docker
    /\ UNCHANGED <<inputs, exit_code, ex, installation_state, initial_state,
                   packages_installed, files, hostpkgs, result, issued, rb>>

\* step 3: _build_docker_image
DockerBuildImage ==
    /\ pc.at = "docker_build"
    /\ \E o \in RunOnce(DockerBuildTimeout) :
          /\ issued' = issued \cup {DockerBuildCmd}
          /\ docker' = [docker EXCEPT !.dockerfile = TRUE,
                                      !.image = IF o = "ok" THEN TRUE ELSE @]
          /\ IF o = "ok" THEN Goto("docker_create") /\ UNCHANGED exc
             ELSE RaiseToPipeline(Exception(o, DockerBuildCmd))
    /\ UNCHANGED <<inputs, exit_code, ex, installation_state, initial_state,
                   packages_installed, files, hostpkgs, result, rb>>

\* step 4: _create_docker_container
DockerCreateContainer ==
    /\ pc.at = "docker_create"
    /\ \E o \in RunOnce(DockerCreateTimeout) :
          /\ issued' = issued \cup {DockerRemoveCmd, DockerCreateCmd}
          /\ docker' = [docker EXCEPT !.container = (o = "ok")]
          /\ IF o = "ok" THEN Goto("docker_wrapper") /\ UNCHANGED exc
             ELSE RaiseToPipeline(Exception(o, DockerCreateCmd))
    /\ UNCHANGED <<inputs, exit_code, ex, installation_state, initial_state,
                   packages_installed, files, hostpkgs, result, rb>>

\* step 5: _create_ros2_wrapper_script; writing the wrapper can fail
DockerInstallWrapper ==
    /\ pc.at = "docker_wrapper"
    /\ \E writable \in BOOLEAN :
          IF writable
          THEN /\ docker' = [docker EXCEPT !.wrapper = TRUE]
               /\ Goto("docker_verify")
               /\ UNCHANGED exc
          ELSE /\ RaiseToPipeline(Exception("PermissionError", <<"ros2">>))
               /\ UNCHANGED docker
    /\ UNCHANGED <<inputs, exit_code, ex, installation_state, initial_state,
                   packages_installed, files, hostpkgs, result, issued, rb>>

\* step 6: _verify_docker_installation, then the successful result
DockerVerify ==
    /\ pc.at = "docker_verify"
    /\ \E start \in RunOnce(DockerVerifyTimeout),
          test \in RunOnce(DockerVerifyTimeout) :
          IF start # "ok"
          THEN /\ issued' = issued \cup {DockerStartCmd}
               /\ RaiseToPipeline(Exception(start, DockerStartCmd))
               /\ UNCHANGED result
          ELSE /\ issued' = issued \cup {DockerStartCmd, DockerExecCmd}
               /\ IF test = "TimeoutExpired"
                  THEN /\ RaiseToPipeline(Exception(test, DockerExecCmd))
                       /\ UNCHANGED result
                  ELSE IF test # "ok"
                  THEN /\ RaiseToPipeline(Exception("InstallationError", DockerExecCmd))
                       /\ UNCHANGED result
                  ELSE /\ result' = [produced |-> TRUE, success |-> TRUE,
                                     packages_installed |-> 1,
                                     errors |-> <<>>, warnings |-> <<>>]
                       /\ Goto("done")
                       /\ UNCHANGED exc
    /\ UNCHANGED <<inputs, exit_code, ex, installation_state, initial_state,
                   packages_installed, files, hostpkgs, docker, rb>>

DockerFailed_CleansUp ==
    /\ pc.at = "except"
    /\ IsDockerMode(system_info)
    /\ result' = FailedResult(<<exc>>, 0)
    /\ docker' = [docker EXCEPT !.image = FALSE, !.container = FALSE,
                                !.wrapper = FALSE]
    /\ Goto("done")
    /\ UNCHANGED <<inputs, exit_code, ex, installation_state, initial_state,
                   packages_installed, files, hostpkgs, exc, issued, rb>>

\* the except clause of install_ros2_docker
DockerFailed ==
    /\ pc.at = "except"
    /\ IsDockerMode(system_info)
    /\ result' = FailedResult(<<exc>>, 0)
    /\ Goto("done")
    /\ UNCHANGED <<inputs, exit_code, ex, installation_state, initial_state,
                   packages_installed, files, hostpkgs, docker, exc, issued, rb>>

-----------------------------------------------------------------------------
(* The run of main through install_ros2 *)

Next ==
    \/ Validate
    \/ Confirm
    \/ UpdateIndex
    \/ InstallEssentials
    \/ RemoveExistingRos
    \/ Autoremove
    \/ AddSigningKey
    \/ AddRepository
    \/ RefreshIndex
    \/ InstallMainPackages
    \/ InstallAdditionalPackage
    \/ InstallDevPackage
    \/ InitRosdep
    \/ UpdateRosdep
    \/ BackupProfile
    \/ AppendSetupBlock
    \/ Verify
    \/ RollbackRemovePackages
    \/ RollbackRestoreBackups
    \/ NativeFailed
    \/ DockerEnsureInstalled
    \/ DockerEnsureRunning
    \/ DockerBuildImage
    \/ DockerCreateContainer
    \/ DockerInstallWrapper
    \/ DockerVerify
    \/ DockerFailed

Spec == Init /\ [][Next]_vars

-----------------------------------------------------------------------------
(* _run_command alone, stepped one loop iteration at a time, for every     *)
(* timeout and retry ceiling a caller or the configuration can give it     *)

\* up to two above the bound, so that an invocation sleeps three times
RetryValues == {None} \cup {Some(n) : n \in -1..(MaxRetries + 2)}
TimeoutValues == {None, Some(0), Some(VerifyTimeout), Some(FullTimeout)}

ExecConfigs ==
    {[DefaultConfig EXCEPT !.retry_attempts = r, !.timeout_seconds = t] :
        r \in RetryValues, t \in {None, Some(0)}}

ExecInit ==
    /\ config \in ExecConfigs
    /\ system_info = [is_ubuntu |-> TRUE, architecture |-> "x86_64",
                      memory_gb |-> 8, disk_space_gb |-> 50]
    /\ env = [euid |-> 0, sudo_user |-> TRUE, lsb_release |-> "24.04"]
    /\ exit_code = None
    /\ pc = Label("run_command")
    /\ \E command \in {AptUpdate, TestRos2}, timeout \in TimeoutValues,
          retries \in RetryValues :
          ex = NewFrame(command, timeout, retries, config)
    /\ peer = IdleFrame
    /\ timer = NoTimer
    /\ installation_state = EmptyJournal
    /\ initial_state = EmptyJournal
    /\ packages_installed = 0
    /\ files = [p \in Paths |-> Absent]
    /\ hostpkgs = {}
    /\ docker = NoDocker
    /\ args = InstallArgs
    /\ config_file = ConfigFile("yaml", DefaultDocument)
    /\ pre = [files |-> files, hostpkgs |-> hostpkgs, docker |-> docker,
              config_file |-> config_file]
    /\ exc = NoExc
    /\ result = NoResult
    /\ issued = {}
    /\ rb = NoRollback

\* one iteration of the for loop of _run_command
ExecAttempt ==
    /\ pc.at = "run_command"
    /\ ex.status = "running"
    /\ \E att \in Attempts : ex' = Iterate(ex, att)
    /\ UNCHANGED <<inputs, exit_code, pc, installation_state, initial_state,
                   packages_installed, files, hostpkgs, docker, exc, result,
                   issued, rb>>

ExecNext == ExecAttempt

ExecSpec == ExecInit /\ [][ExecNext]_vars

-----------------------------------------------------------------------------
(* main --validate-only and main --dry-run: validation alone, for every    *)
(* snapshot and every validation section of the configuration              *)

ModeConfigs ==
    {[DefaultConfig EXCEPT !.min_disk_space_gb = d, !.min_memory_gb = m,
                           !.supported_architectures = a] :
        d \in {None, Some(DefaultMinDisk + 1)},
        m \in {None, Some(DefaultMinMemory + 1)},
        a \in {None, Some({"riscv64"})}}

ModeSnapshots ==
    [is_ubuntu : BOOLEAN,
     architecture : {"x86_64", "riscv64", "mips"},
     memory_gb : (DefaultMinMemory - 1)..(DefaultMinMemory + 1),
     disk_space_gb : (DefaultMinDisk - 1)..(DefaultMinDisk + 1)]

ModeInit ==
    /\ config \in ModeConfigs
    /\ system_info \in ModeSnapshots
    /\ env \in [euid : {0, 1000}, sudo_user : {TRUE}, lsb_release : {"24.04", "22.04"}]
    /\ files = [p \in Paths |-> IF p = BashrcPath THEN DefaultBashrc ELSE Absent]
    /\ hostpkgs = {}
    /\ docker \in {[NoDocker EXCEPT !.installed = i] : i \in BOOLEAN}
    /\ args = InstallArgs
    /\ config_file = ConfigFile("yaml", DefaultDocument)
    /\ pre = [files |-> files, hostpkgs |-> hostpkgs, docker |-> docker,
              config_file |-> config_file]
    /\ exit_code = None
    /\ pc \in {Label("validate_only"), Label("dry_run")}
    /\ ex = IdleFrame
    /\ peer = IdleFrame
    /\ timer = NoTimer
    /\ installation_state = EmptyJournal
    /\ initial_state = EmptyJournal
    /\ packages_installed = 0
    /\ exc = NoExc
    /\ result = NoResult
    /\ issued = {}
    /\ rb = NoRollback

\* sys.exit(0 if is_valid else 1)
ExitCodeOfValidation(is_valid) == IF is_valid THEN Some(0) ELSE Some(1)

\* if args.validate_only: ...
ValidateOnly ==
    /\ pc.at = "validate_only"
    /\ exit_code' = ExitCodeOfValidation(
                        ValidateSystem(system_info, env, config, docker.installed))
    /\ Goto("exited")
    /\ UNCHANGED <<inputs, ex, installation_state, initial_state,
                   packages_installed, files, hostpkgs, docker, exc, result,
                   issued, rb>>

DryRun_Installs ==
    /\ pc.at = "dry_run"
    /\ Goto("install_ros2")
    /\ UNCHANGED <<inputs, exit_code, ex, installation_state, initial_state,
                   packages_installed, files, hostpkgs, docker, exc, result,
                   issued, rb>>

\* if args.dry_run: ...
DryRun ==
    /\ pc.at = "dry_run"
    /\ exit_code' = ExitCodeOfValidation(
                        ValidateSystem(system_info, env, config, docker.installed))
    /\ Goto("exited")
    /\ UNCHANGED <<inputs, ex, installation_state, initial_state,
                   packages_installed, files, hostpkgs, docker, exc, result,
                   issued, rb>>

ModeNext == ValidateOnly \/ DryRun

ModeSpec == ModeInit /\ [][ModeNext]_vars

-----------------------------------------------------------------------------
(* A second native run on the installer object of an earlier one: the      *)
(* journal is never cleared, so the guard is entered with the entries of   *)
(* the earlier run. The earlier run is a successful one under the same     *)
(* configuration in which every optional package failed to install.        *)

EarlierJournal(cfg) ==
    [packages_installed |-> MainPackages(cfg.package_set),
     repositories_added |-> <<RepoListPath>>,
     files_modified |-> <<BashrcPath>>,
     backup_files |-> <<BackupPath>>]

EarlierFiles ==
    [p \in Paths |->
        IF p = BashrcPath THEN File(<<UserContent, Ros2SetupBlock>>)
        ELSE IF p = BackupPath THEN File(<<UserContent>>)
        ELSE IF p = RepoListPath THEN File(<<"repo_line">>)
        ELSE File(<<"ros.key">>)]

ReuseInit ==
    /\ config \in {[DefaultConfig EXCEPT !.retry_attempts = Some(n), !.package_set = t] :
                      n \in 1..MaxRetries, t \in Tiers}
    /\ system_info = [is_ubuntu |-> TRUE, architecture |-> "x86_64",
                      memory_gb |-> 8, disk_space_gb |-> 50]
    /\ env = [euid |-> 0, sudo_user |-> TRUE, lsb_release |-> "24.04"]
    /\ files = EarlierFiles
    /\ hostpkgs = Range(EssentialPackages) \cup Range(MainPackages(config.package_set))
    /\ docker = NoDocker
    /\ args = InstallArgs
    /\ config_file = ConfigFile("yaml", DefaultDocument)
    /\ pre = [files |-> files, hostpkgs |-> hostpkgs, docker |-> docker,
              config_file |-> config_file]
    /\ exit_code = None
    /\ pc = Label("install_ros2")
    /\ ex = IdleFrame
    /\ peer = IdleFrame
    /\ timer = NoTimer
    /\ installation_state = EarlierJournal(config)
    /\ initial_state = EmptyJournal
    /\ packages_installed = 0
    /\ exc = NoExc
    /\ result = NoResult
    /\ issued = {}
    /\ rb = NoRollback

ReuseNext ==
    \/ Validate
    \/ Confirm
    \/ UpdateIndex
    \/ InstallEssentials
    \/ RemoveExistingRos
    \/ Autoremove
    \/ AddSigningKey
    \/ AddRepository
    \/ RefreshIndex
    \/ InstallMainPackages
    \/ InstallAdditionalPackage
    \/ InstallDevPackage
    \/ InitRosdep
    \/ UpdateRosdep
    \/ BackupProfile
    \/ AppendSetupBlock
    \/ Verify
    \/ RollbackRemovePackages
    \/ RollbackRestoreBackups
    \/ NativeFailed

ReuseSpec == ReuseInit /\ [][ReuseNext]_vars

-----------------------------------------------------------------------------
(* main: the argument parser, the construction of the installer from the   *)
(* configuration file, the special modes, the installation and the exit    *)
(* status, with a user interrupt possible anywhere inside the try block    *)

\* --package-set has choices=['minimal', 'base', 'desktop', 'desktop-full']
ArgsRejected(a) == a.package_set \notin ({None} \cup {Some(t) : t \in Tiers})

\* self.config before _load_configuration returned
NoConfig == [DefaultConfig EXCEPT !.package_set = "", !.retry_attempts = None]

\* the parser is chosen by the suffix; the module never imports json, so
\* json.load raises NameError
Loadable(file) == file.suffix \in {"yaml", "yml"} /\ file.doc.wellformed

\* _validate_configuration: the sections and the distribution, nothing else
ValidConfiguration(doc) ==
    /\ RequiredSections \subseteq doc.sections
    /\ (IF doc.ros_distro = "" THEN DefaultDistro ELSE doc.ros_distro) \in ValidDistros

\* the configuration the pipelines read, from the document that was loaded
ConfigOf(doc) ==
    [DefaultConfig EXCEPT !.package_set = doc.package_set,
                          !.retry_attempts = doc.retry_attempts]

ExitCodeOfResult_Zero(success) == Some(0)
\* sys.exit(0) if result.success, sys.exit(1) otherwise
ExitCodeOfResult(success) == IF success THEN Some(0) ELSE Some(1)

\* parser.parse_args(): --help and --version exit 0, a value outside the
\* choices exits 2, whichever the parser meets first on the command line
ParseArgs ==
    /\ pc.at = "main"
    /\ LET early == (IF args.flags \cap {"help", "version"} # {}
                     THEN {Some(0)} ELSE {})
                    \cup (IF ArgsRejected(args) THEN {Some(2)} ELSE {})
       IN IF early # {}
          THEN /\ exit_code' \in early
               /\ exc' = Exception("SystemExit", <<>>)
               /\ Goto("exited")
          ELSE /\ Goto("construct")
               /\ UNCHANGED <<exit_code, exc>>
    /\ UNCHANGED <<peer, timer, config, system_info, env, pre, args, config_file, ex,
                   installation_state, initial_state, packages_installed,
                   files, hostpkgs, docker, result, issued, rb>>

\* CLIInstaller(args.config): _load_configuration writes the default document
\* when the path does not exist, parses the file and validates it; whatever
\* it raises becomes a ConfigurationError, which main prints before exit 1
Construct ==
    /\ pc.at = "construct"
    /\ \E writable \in BOOLEAN :
         LET created == ~config_file.exists
             file == IF created
                     THEN ConfigFile(config_file.suffix, DefaultDocument)
                     ELSE config_file
             loaded == /\ ~(created /\ ~writable)
                       /\ Loadable(file)
                       /\ ValidConfiguration(file.doc)
         IN /\ config_file' = IF created /\ ~writable THEN config_file ELSE file
            /\ IF loaded
               THEN /\ config' = ConfigOf(file.doc)
                    /\ Goto("overrides")
                    /\ UNCHANGED <<exit_code, exc>>
               ELSE /\ exc' = Exception("ConfigurationError", <<>>)
                    /\ exit_code' = Some(1)
                    /\ Goto("exited")
                    /\ UNCHANGED config
    /\ UNCHANGED <<peer, timer, system_info, env, pre, args, ex, installation_state,
                   initial_state, packages_installed, files, hostpkgs, docker,
                   result, issued, rb>>

\* the overrides from the command line, then the choice of the mode
ApplyOverrides ==
    /\ pc.at = "overrides"
    /\ config' = IF args.package_set # None
                 THEN [config EXCEPT !.package_set = Val(args.package_set)]
                 ELSE config
    /\ Goto(IF "show_config" \in args.flags THEN "show_config"
            ELSE IF "validate_only" \in args.flags THEN "validate_only"
            ELSE IF "dry_run" \in args.flags THEN "dry_run"
            ELSE "install_ros2")
    /\ UNCHANGED <<peer, timer, system_info, env, pre, args, config_file, exit_code, ex,
                   installation_state, initial_state, packages_installed,
                   files, hostpkgs, docker, exc, result, issued, rb>>

\* if args.show_config: ...
ShowConfig ==
    /\ pc.at = "show_config"
    /\ exit_code' = Some(0)
    /\ Goto("exited")
    /\ UNCHANGED <<inputs, ex, installation_state, initial_state,
                   packages_installed, files, hostpkgs, docker, exc, result,
                   issued, rb>>

\* the exit status main derives from the result of install_ros2
MainExit ==
    /\ pc.at = "done"
    /\ exit_code' = ExitCodeOfResult(result.success)
    /\ Goto("exited")
    /\ UNCHANGED <<inputs, ex, installation_state, initial_state,
                   packages_installed, files, hostpkgs, docker, exc, result,
                   issued, rb>>

Interrupt_CaughtByGuard ==
    /\ pc.at \notin {"main", "exited"}
    /\ exc' = Exception("KeyboardInterrupt", <<>>)
    /\ IF pc.at \in {"done", "construct", "overrides", "show_config",
                     "validate_only", "dry_run"}
       THEN exit_code' = Some(1) /\ Goto("exited")
       ELSE Goto("rollback") /\ UNCHANGED exit_code
    /\ UNCHANGED <<inputs, ex, installation_state, initial_state,
                   packages_installed, files, hostpkgs, docker, result,
                   issued, rb>>

\* except KeyboardInterrupt: the interrupt arrives while main is anywhere
\* inside its try block
Interrupt ==
    /\ pc.at \notin {"main", "exited"}
    /\ exc' = Exception("KeyboardInterrupt", <<>>)
    /\ exit_code' = Some(1)
    /\ Goto("exited")
    /\ UNCHANGED <<inputs, ex, installation_state, initial_state,
                   packages_installed, files, hostpkgs, docker, result,
                   issued, rb>>

\* command lines: every combination of the flags, without --package-set,
\* with one of its choices and with a value outside them
MainArgs == [flags : SUBSET Flags,
             package_set : {None, Some("base"), Some("everything")}]

\* configuration files: no file at the path, loadable documents of several
\* tiers, one of them outside the tiers of the installer, a JSON file, a file
\* that does not parse, and documents _validate_configuration rejects
MainDocuments ==
    {Document(TRUE, DefaultDocument.sections, "kilted", t, Some(1)) :
        t \in {"minimal", "desktop-full", "everything"}}
    \cup {Document(TRUE, {"installation", "logging"}, "", "base", Some(1)),
          Document(FALSE, {}, "", "", None),
          Document(TRUE, {"installation"}, "kilted", "base", Some(1)),
          Document(TRUE, {"logging"}, "", "", None),
          Document(TRUE, {"installation", "logging"}, "noetic", "base", Some(1))}

MainConfigFiles ==
    {[NoConfigFile EXCEPT !.suffix = x] : x \in {"yaml", "json"}}
    \cup {ConfigFile("yaml", d) : d \in MainDocuments}
    \cup {ConfigFile("json", DefaultDocument)}

MainInit ==
    /\ args \in MainArgs
    /\ config_file \in MainConfigFiles
    /\ config = NoConfig
    /\ system_info \in [is_ubuntu : BOOLEAN, architecture : {"x86_64"},
                        memory_gb : {8}, disk_space_gb : {50}]
    /\ env \in [euid : {0, 1000}, sudo_user : {TRUE}, lsb_release : {"24.04"}]
    /\ files = [p \in Paths |-> IF p = BashrcPath THEN DefaultBashrc ELSE Absent]
    /\ hostpkgs \in {{}, {"ros-humble-desktop"}}
    /\ docker = NoDocker
    /\ pre = [files |-> files, hostpkgs |-> hostpkgs, docker |-> docker,
              config_file |-> config_file]
    /\ exit_code = None
    /\ pc = Label("main")
    /\ ex = IdleFrame
    /\ peer = IdleFrame
    /\ timer = NoTimer
    /\ installation_state = EmptyJournal
    /\ initial_state = EmptyJournal
    /\ packages_installed = 0
    /\ exc = NoExc
    /\ result = NoResult
    /\ issued = {}
    /\ rb = NoRollback

MainNext ==
    \/ ParseArgs
    \/ Construct
    \/ ApplyOverrides
    \/ ShowConfig
    \/ ValidateOnly
    \/ DryRun
    \/ Next
    \/ MainExit
    \/ Interrupt

MainSpec == MainInit /\ [][MainNext]_vars

-----------------------------------------------------------------------------
(* _configure_environment executed again and again on the same installer   *)
(* object, each execution starting from the profile and the journal the    *)
(* one before left, whether it returned or raised                          *)

ProfileInit ==
    /\ system_info = [is_ubuntu |-> TRUE, architecture |-> "x86_64",
                      memory_gb |-> 8, disk_space_gb |-> 50]
    /\ config \in {[DefaultConfig EXCEPT !.retry_attempts = Some(n),
                                         !.backup_configs = b] :
                      n \in 1..MaxRetries, b \in BOOLEAN}
    /\ env \in [euid : {0}, sudo_user : BOOLEAN, lsb_release : {"24.04"}]
    /\ \E bashrc \in InitialBashrc :
          files = [p \in Paths |-> IF p = BashrcPath THEN bashrc ELSE Absent]
    /\ hostpkgs = {}
    /\ docker = NoDocker
    /\ args = InstallArgs
    /\ config_file = ConfigFile("yaml", DefaultDocument)
    /\ pre = [files |-> files, hostpkgs |-> hostpkgs, docker |-> docker,
              config_file |-> config_file]
    /\ exit_code = None
    /\ pc = Label("env_backup")
    /\ ex = IdleFrame
    /\ peer = IdleFrame
    /\ timer = NoTimer
    /\ installation_state = EmptyJournal
    /\ initial_state = EmptyJournal
    /\ packages_installed = 0
    /\ exc = NoExc
    /\ result = NoResult
    /\ issued = {}
    /\ rb = NoRollback

\* the next call of _configure_environment; the journal counts the calls
\* that took a backup
ConfigureAgain ==
    /\ pc.at \in {"verify", "rollback"}
    /\ Len(installation_state.backup_files) < MaxRuns
    /\ Goto("env_backup")
    /\ exc' = NoExc
    /\ UNCHANGED <<inputs, exit_code, ex, installation_state, initial_state,
                   packages_installed, files, hostpkgs, docker, result,
                   issued, rb>>

ProfileNext ==
    \/ BackupProfile
    \/ AppendSetupBlock
    \/ ConfigureAgain

ProfileSpec == ProfileInit /\ [][ProfileNext]_vars

-----------------------------------------------------------------------------
(* Two _run_command invocations on the same host at the same time, each    *)
(* on its own command. An attempt starts a child process and ends when the *)
(* child does; between the two the other invocation can take steps.        *)
(* _cleanup_package_processes, run after a failed attempt of a command     *)
(* that names apt-get or dpkg, kills every process of the host whose       *)
(* command line contains apt-get or dpkg.                                  *)

\* sudo pkill -f apt-get; sudo pkill -f dpkg: the child of f, if it is one
\* of the processes the patterns match
Killed(f) ==
    IF f.status = "waiting" /\ UsesPackageManager(f.command)
    THEN [f EXCEPT !.status = "killed"]
    ELSE f

\* how the child of f ends: as the command would by itself, or on the signal
EndOfChild(f, beh) ==
    IF f.status = "killed" THEN [dur |-> 1, exit |-> 1] ELSE beh[f.attempt]

\* the cleanup runs in the except clauses of commands of the package manager
CleansUp(f, att) ==
    AttemptOutcome(att, f.timeout) # "ok" /\ UsesPackageManager(f.command)

\* the pairs of commands: two installs of different packages, and an install
\* next to a command that is none of the package manager's
ConcCommands ==
    {<<AptInstall(<<DevPackages[1]>>), AptInstall(<<AdditionalPackages[1]>>)>>,
     <<AptInstall(<<DevPackages[1]>>), TestRos2>>}

ConcInit ==
    /\ config \in {[DefaultConfig EXCEPT !.retry_attempts = Some(n)] :
                      n \in 1..MaxRetries}
    /\ system_info = [is_ubuntu |-> TRUE, architecture |-> "x86_64",
                      memory_gb |-> 8, disk_space_gb |-> 50]
    /\ env = [euid |-> 0, sudo_user |-> TRUE, lsb_release |-> "24.04"]
    /\ exit_code = None
    /\ pc = Label("run_command")
    /\ \E c \in ConcCommands :
          /\ ex = NewFrame(c[1], None, None, config)
          /\ peer = NewFrame(c[2], None, None, config)
    /\ timer = NoTimer
    /\ installation_state = EmptyJournal
    /\ initial_state = EmptyJournal
    /\ packages_installed = 0
    /\ files = [p \in Paths |-> Absent]
    /\ hostpkgs = {}
    /\ docker = NoDocker
    /\ args = InstallArgs
    /\ config_file = ConfigFile("yaml", DefaultDocument)
    /\ \E b1 \in Behaviours, b2 \in Behaviours :
          pre = [files |-> files, hostpkgs |-> hostpkgs, docker |-> docker,
                 config_file |-> config_file, behaviours |-> <<b1, b2>>]
    /\ exc = NoExc
    /\ result = NoResult
    /\ issued = {}
    /\ rb = NoRollback

\* subprocess.run starts the child of the attempt
ConcStart ==
    /\ pc.at = "run_command"
    /\ \/ ex.status = "running" /\ ex' = [ex EXCEPT !.status = "waiting"]
                                /\ UNCHANGED peer
       \/ peer.status = "running" /\ peer' = [peer EXCEPT !.status = "waiting"]
                                  /\ UNCHANGED ex
    /\ UNCHANGED <<config, system_info, env, pre, args, config_file, exit_code,
                   timer, pc, installation_state, initial_state, packages_installed,
                   files, hostpkgs, docker, exc, result, issued, rb>>

\* the child ended: the rest of the loop iteration, with the cleanup
ConcFinish ==
    /\ pc.at = "run_command"
    /\ \/ /\ ex.status \in {"waiting", "killed"}
          /\ LET att == EndOfChild(ex, pre.behaviours[1]) IN
             /\ ex' = Iterate([ex EXCEPT !.status = "running"], att)
             /\ peer' = IF CleansUp(ex, att) THEN Killed(peer) ELSE peer
       \/ /\ peer.status \in {"waiting", "killed"}
          /\ LET att == EndOfChild(peer, pre.behaviours[2]) IN
             /\ peer' = Iterate([peer EXCEPT !.status = "running"], att)
             /\ ex' = IF CleansUp(peer, att) THEN Killed(ex) ELSE ex
    /\ UNCHANGED <<config, system_info, env, pre, args, config_file, exit_code,
                   timer, pc, installation_state, initial_state, packages_installed,
                   files, hostpkgs, docker, exc, result, issued, rb>>

ConcNext == ConcStart \/ ConcFinish

ConcSpec == ConcInit /\ [][ConcNext]_vars

-----------------------------------------------------------------------------
(* Step 2 of the container pipeline at the grain of the polling loop of    *)
(* _wait_for_docker_daemon, with the clock in seconds                      *)

WaitTimeout == 120
PollTimeout == 15
PollSleep == 3

\* how long one `docker info` can take: it answers at once, after a second,
\* or is cut off by its timeout
PollDurations == {0, 1, PollTimeout}

Elapse_NoTime(t, seconds) == t
\* time.time() after `seconds` more seconds
Elapse(t, seconds) == [t EXCEPT !.now = @ + seconds]

\* deadline = time.time() + timeout
SetDeadline(t, timeout) == [t EXCEPT !.deadline = t.now + timeout]

WaitLabels == {"docker_daemon", "wait_test", "wait_poll", "wait_sleep"}

\* a container-required host that passed validation and step 1
WaitInit ==
    /\ system_info = [is_ubuntu |-> FALSE, architecture |-> "x86_64",
                      memory_gb |-> 8, disk_space_gb |-> 50]
    /\ config = DefaultConfig
    /\ env \in [euid : {0, 1000}, sudo_user : {TRUE}, lsb_release : {"24.04"}]
    /\ files = [p \in Paths |-> IF p = BashrcPath THEN DefaultBashrc ELSE Absent]
    /\ hostpkgs = {}
    /\ docker \in {d \in InitialDocker : d.installed /\ ~d.running}
    /\ args = InstallArgs
    /\ config_file = ConfigFile("yaml", DefaultDocument)
    /\ pre = [files |-> files, hostpkgs |-> hostpkgs, docker |-> docker,
              config_file |-> config_file]
    /\ exit_code = None
    /\ pc = Label("docker_daemon")
    /\ ex = IdleFrame
    /\ peer = IdleFrame
    /\ timer = NoTimer
    /\ installation_state = EmptyJournal
    /\ initial_state = EmptyJournal
    /\ packages_installed = 0
    /\ exc = NoExc
    /\ result = NoResult
    /\ issued = {}
    /\ rb = NoRollback

\* `if not self._check_docker_running():` and the entry of the wait
DaemonCheck ==
    /\ pc.at = "docker_daemon"
    /\ \E d \in PollDurations, up \in BOOLEAN :
          /\ docker' = [docker EXCEPT !.running = up]
          /\ IF up
             THEN timer' = Elapse(timer, d) /\ Goto("docker_build")
             ELSE timer' = SetDeadline(Elapse(timer, d), WaitTimeout)
                  /\ Goto("wait_test")
    /\ UNCHANGED <<config, system_info, env, pre, args, config_file, peer,
                   exit_code, ex, installation_state, initial_state,
                   packages_installed, files, hostpkgs, exc, result, issued, rb>>

\* `while time.time() < deadline:` and the raise after the loop
WaitTest ==
    /\ pc.at = "wait_test"
    /\ IF timer.now < timer.deadline
       THEN Goto("wait_poll") /\ UNCHANGED exc
       ELSE RaiseToPipeline(Exception("InstallationError", <<"daemon">>))
    /\ UNCHANGED <<inputs, exit_code, ex, installation_state, initial_state,
                   packages_installed, files, hostpkgs, docker, result, issued, rb>>

\* `if self._check_docker_running(): return`
WaitPoll ==
    /\ pc.at = "wait_poll"
    /\ \E d \in PollDurations, up \in BOOLEAN :
          /\ timer' = Elapse(timer, d)
          /\ docker' = [docker EXCEPT !.running = up]
          /\ IF up THEN Goto("docker_build") ELSE Goto("wait_sleep")
    /\ UNCHANGED <<config, system_info, env, pre, args, config_file, peer,
                   exit_code, ex, installation_state, initial_state,
                   packages_installed, files, hostpkgs, exc, result, issued, rb>>

\* `time.sleep(3)`
WaitSleep ==
    /\ pc.at = "wait_sleep"
    /\ timer' = Elapse(timer, PollSleep)
    /\ Goto("wait_test")
    /\ UNCHANGED <<config, system_info, env, pre, args, config_file, peer,
                   exit_code, ex, installation_state, initial_state,
                   packages_installed, files, hostpkgs, docker, exc, result,
                   issued, rb>>

WaitNext ==
    \/ DaemonCheck
    \/ WaitTest
    \/ WaitPoll
    \/ WaitSleep
    \/ DockerBuildImage
    \/ DockerFailed

\* the loop is sequential code of one thread: a step that can run does run
WaitSpec == WaitInit /\ [][WaitNext]_vars /\ WF_vars(WaitNext)

-----------------------------------------------------------------------------
(* The run from the snapshot the constructor gathers: _gather_system_info  *)
(* can fail (psutil missing, a probe raising) on any host                  *)

FallbackSnapshot_Capable ==
    [is_ubuntu |-> FALSE, architecture |-> "x86_64", memory_gb |-> 8,
     disk_space_gb |-> 50]
\* SystemInfo("Unknown", "Unknown", "Unknown", 0, 0, 1): is_ubuntu keeps the
\* default of the dataclass
FallbackSnapshot ==
    [is_ubuntu |-> FALSE, architecture |-> "Unknown", memory_gb |-> 0,
     disk_space_gb |-> 0]

\* what the constructor keeps in self.system_info on host `host`
GatherSystemInfo(host, fails) == IF fails THEN FallbackSnapshot ELSE host

GatherInit ==
    /\ \E host \in Snapshots, fails \in BOOLEAN :
          /\ system_info = GatherSystemInfo(host, fails)
          /\ docker \in {d \in InitialDocker :
                           /\ d.running => d.installed
                           /\ d.container => d.installed
                           /\ host.is_ubuntu => d = NoDocker}
          /\ files = [p \in Paths |-> IF p = BashrcPath THEN DefaultBashrc ELSE Absent]
          /\ hostpkgs \in {{}, {"ros-humble-desktop"}}
          /\ config_file = ConfigFile("yaml", DefaultDocument)
          /\ pre = [files |-> files, hostpkgs |-> hostpkgs, docker |-> docker,
                    config_file |-> config_file, host |-> host, fails |-> fails]
    /\ config = DefaultConfig
    /\ env \in [euid : {0, 1000}, sudo_user : {TRUE}, lsb_release : {"24.04"}]
    /\ args = InstallArgs
    /\ exit_code = None
    /\ pc = Label("install_ros2")
    /\ ex = IdleFrame
    /\ peer = IdleFrame
    /\ timer = NoTimer
    /\ installation_state = EmptyJournal
    /\ initial_state = EmptyJournal
    /\ packages_installed = 0
    /\ exc = NoExc
    /\ result = NoResult
    /\ issued = {}
    /\ rb = NoRollback

GatherSpec == GatherInit /\ [][Next]_vars

-----------------------------------------------------------------------------
(* Backup names: the path _configure_environment records and the path      *)
(* _rollback_installation derives from it, over paths that contain the     *)
(* separator or parts of it                                                *)

\* pieces a path is made of; the last three spell the separator or a part
\* of it
PathTokens == {"/home/user/", ".bashrc", ".backup", "backup.", ".backup."}

\* str(uuid.uuid4())[:8]: eight hexadecimal digits
SessionIds == {SessionId, "00000000"}

\* the text of a token sequence, cut where a `.` begins or ends, so that an
\* occurrence of the separator across two tokens is an occurrence in the text
RECURSIVE Text(_)
Text(tokens) ==
    IF tokens = <<>> THEN <<>>
    ELSE (CASE Head(tokens) = ".backup." -> <<".", "backup", ".">>
            [] Head(tokens) = ".backup"  -> <<".", "backup">>
            [] Head(tokens) = "backup."  -> <<"backup", ".">>
            [] OTHER -> <<Head(tokens)>>)
         \o Text(Tail(tokens))

\* str.rsplit(sep, 1)[0]: what stands before the last occurrence of sep, the
\* whole of str if there is none
RSplitHead(str, sep) ==
    LET at == {i \in 1..(Len(str) - Len(sep) + 1) :
                  SubSeq(str, i, i + Len(sep) - 1) = sep} IN
    IF at = {} THEN str
    ELSE SubSeq(str, 1, (CHOOSE i \in at : \A j \in at : j <= i) - 1)

NamingInit ==
    /\ config = DefaultConfig
    /\ system_info = [is_ubuntu |-> TRUE, architecture |-> "x86_64",
                      memory_gb |-> 8, disk_space_gb |-> 50]
    /\ env = [euid |-> 0, sudo_user |-> TRUE, lsb_release |-> "24.04"]
    /\ files = [p \in Paths |-> Absent]
    /\ hostpkgs = {}
    /\ docker = NoDocker
    /\ args = InstallArgs
    /\ config_file = ConfigFile("yaml", DefaultDocument)
    /\ \E n \in 1..MaxPathLen, sid \in SessionIds :
          \E path \in [1..n -> PathTokens] :
             pre = [files |-> files, hostpkgs |-> hostpkgs, docker |-> docker,
                    config_file |-> config_file, path |-> path,
                    session_id |-> sid]
    /\ exit_code = None
    /\ pc = Label("env_backup")
    /\ ex = IdleFrame
    /\ peer = IdleFrame
    /\ timer = NoTimer
    /\ installation_state = EmptyJournal
    /\ initial_state = EmptyJournal
    /\ packages_installed = 0
    /\ exc = NoExc
    /\ result = NoResult
    /\ issued = {}
    /\ rb = NoRollback

\* _configure_environment names the backup and records it in the journal
RecordBackup ==
    /\ pc.at = "env_backup"
    /\ installation_state' =
          [installation_state EXCEPT !.backup_files =
              Append(@, BackupPathOf(pre.path, pre.session_id))]
    /\ Goto("rollback_restore")
    /\ UNCHANGED <<inputs, exit_code, ex, initial_state, packages_installed,
                   files, hostpkgs, docker, exc, result, issued, rb>>

\* _rollback_installation derives the path to restore to
DeriveOriginal ==
    /\ pc.at = "rollback_restore"
    /\ LET backup_file == installation_state.backup_files[1] IN
       rb' = [rb EXCEPT !.renames =
                 Append(@, [backup |-> backup_file,
                            original |-> OriginalFileOf(backup_file),
                            text |-> RSplitHead(Text(backup_file),
                                                Text(<<".backup.">>))])]
    /\ Goto("except")
    /\ UNCHANGED <<inputs, exit_code, ex, installation_state, initial_state,
                   packages_installed, files, hostpkgs, docker, exc, result,
                   issued>>

NamingNext == RecordBackup \/ DeriveOriginal

NamingSpec == NamingInit /\ [][NamingNext]_vars

-----------------------------------------------------------------------------
(* Properties *)

IsRemoval(command) == Len(command) >= 3 /\ command[3] = "remove"
RemovedBy(command) == Range(SubSeq(command, 5, Len(command)))
NativeRun == ~IsDockerMode(system_info)
GuardedFailure == exc.type \notin {"none", "ValidationError"}

\* C1: with a retry ceiling n >= 1, as long as no attempt has succeeded the
\* invocation has made at most n attempts; before the n-th it is still
\* running, and after the n-th it has raised the failure of that n-th attempt.
C1_ExactlyNAttemptsThenRaise ==
    (ex.retries >= 1 /\ ex.oks = 0) =>
        /\ ex.tries <= ex.retries
        /\ ex.tries < ex.retries => ex.status = "running"
        /\ ex.tries = ex.retries =>
              /\ ex.status = "raised"
              /\ ex.exc = [type |-> ex.last, command |-> ex.command,
                           attempt |-> ex.retries - 1]

C1_Witness ==
    ex.status = "raised" /\ ex.retries >= 2 /\ ex.tries = ex.retries

\* C2: _run_command returns normally only if some attempt succeeded; an
\* invocation that ended without a successful attempt ended by raising.
C2_ReturnsOnlyAfterSuccess ==
    ex.status \in {"returned", "none", "raised"} =>
        IF ex.oks >= 1 THEN ex.status = "returned" ELSE ex.status = "raised"

\* C3: in a native run the rollback procedure runs at most once, only after
\* a step inside the guard raised, and it has run to completion before the
\* failure reaches the except clause and the failed result is produced.
C3_RollbackBeforeFailedResult ==
    NativeRun =>
        /\ rb.runs <= 1 /\ rb.completed <= rb.runs
        /\ rb.runs >= 1 => GuardedFailure
        /\ (GuardedFailure /\ (pc.at \in {"except", "done"} \/ result.produced))
              => rb.runs = 1 /\ rb.completed = 1
        /\ (result.produced /\ ~GuardedFailure) => rb.runs = 0

C3_Witness ==
    NativeRun /\ result.produced /\ ~result.success /\ rb.completed = 1

\* C4: whatever failed inside rollback, the run ends with a failed result
\* whose error list is exactly the failure the guard caught, which is the
\* failure of a pipeline step and not of the removal command of rollback.
C4_OriginalFailureSurfaces ==
    (result.produced /\ rb.runs >= 1) =>
        /\ rb.completed = 1
        /\ ~result.success
        /\ result.errors = <<rb.cause>>
        /\ ~IsRemoval(result.errors[1].command)

C4_Witness ==
    result.produced /\ rb.failures >= 2 /\ result.errors = <<rb.cause>>

\* C5: rollback requests the removal of exactly the packages the journal
\* holds now and did not hold when the guard was entered, through one
\* invocation of the executor, and of nothing when there is no such package.
C5_RemovalIsJournalDifference ==
    rb.runs >= 1 =>
        LET new == Range(installation_state.packages_installed)
                   \ Range(initial_state.packages_installed)
            removals == {c \in issued : IsRemoval(c)}
        IN /\ rb.removals = IF new = {} THEN <<>> ELSE <<new>>
           /\ Cardinality(removals) = Len(rb.removals)
           /\ \A c \in removals :
                 /\ RemovedBy(c) = new
                 /\ RemovedBy(c) \cap Range(initial_state.packages_installed) = {}

C5_Witness ==
    /\ rb.runs = 1
    /\ rb.removals # <<>>
    /\ initial_state.packages_installed # <<>>

\* C6: the restore step of rollback gives every backup path of the journal
\* its turn, whatever happened to the entries before it and to the package
\* removal, and then completes: the path restored is the backup path with
\* the backup suffix stripped, a rename that succeeds puts the content of the
\* backup there, and an entry is passed over only when its backup file is
\* not there (it never was written, or an earlier entry renamed it).
C6_EveryBackupRestoreAttempted ==
    [][pc.at = "rollback_restore" =>
          LET backups == installation_state.backup_files
              log == rb'.renames
          IN /\ pc'.at = "except"
             /\ rb'.completed = rb.completed + 1
             /\ Len(log) = Len(backups)
             /\ \A k \in 1..Len(backups) :
                   /\ log[k].backup = backups[k]
                   /\ BackupPathOf(log[k].original, SessionId) = backups[k]
                   /\ log[k].outcome = "missing" =>
                         \/ ~files[backups[k]].exists
                         \/ \E j \in 1..(k - 1) :
                               log[j].backup = backups[k] /\ log[j].outcome = "renamed"
                   /\ log[k].outcome = "renamed" =>
                         /\ files[backups[k]].exists
                         /\ ~files'[backups[k]].exists
                         /\ files'[log[k].original] = files[backups[k]]]_vars

C6_Witness ==
    /\ rb.completed = 1
    /\ Len(rb.renames) = 2
    /\ rb.renames[1].outcome = "failed"
    /\ rb.renames[2].outcome = "renamed"
    /\ rb.failures = 2

\* C7: in a run whose commands are each attempted at least once, after a
\* rollback in which every recorded backup was renamed back, every file of the journal's modified-files sequence holds the content it
\* held before the run, whether or not the backup option was on and whether
\* or not the file existed before the run.
C7_ModifiedFilesRestored ==
    (/\ rb.completed >= 1
     /\ EffectiveRetries(None, config) >= 1
     /\ \A k \in 1..Len(rb.renames) : rb.renames[k].outcome = "renamed") =>
        \A f \in Range(installation_state.files_modified) :
            files[f] = pre.files[f]

\* C8: no step of rollback changes the repository definition file, the
\* signing-key file or the repositories-added sequence of the journal.
C8_RollbackLeavesRepository ==
    [][pc.at \in {"rollback", "rollback_restore"} =>
          /\ files'[RepoListPath] = files[RepoListPath]
          /\ files'[KeyringPath] = files[KeyringPath]
          /\ installation_state'.repositories_added
                = installation_state.repositories_added]_vars

C8_Witness ==
    /\ rb.completed = 1
    /\ files[RepoListPath].exists
    /\ files[KeyringPath].exists
    /\ installation_state.repositories_added # <<>>

\* C9: in both pipelines, when validation reports an issue or the user
\* declines, no step runs: no command is issued, host and journal are as
\* before the run, rollback does not run, and the result is a failure with
\* exactly one error.
C9_NoMutationWithoutValidationAndConsent ==
    LET issues == ValidationIssues(system_info, env, config, pre.docker.installed)
        declined == result.produced /\ Len(result.errors) = 1
                    /\ result.errors[1].type = "Cancelled"
        untouched == /\ issued = {}
                     /\ installation_state = EmptyJournal
                     /\ files = pre.files
                     /\ hostpkgs = pre.hostpkgs
                     /\ docker = pre.docker
                     /\ rb = NoRollback
    IN /\ issues # <<>> =>
            /\ pc.at \in {"install_ros2", "except", "done"}
            /\ untouched
            /\ result.produced =>
                  /\ ~result.success
                  /\ result.errors = <<Exception("ValidationError", <<>>)>>
       /\ declined => untouched /\ ~result.success
       /\ pc.at = "confirm" => untouched

C9_Witness ==
    /\ ValidationIssues(system_info, env, config, pre.docker.installed) # <<>>
    /\ result.produced
    /\ IsDockerMode(system_info)

\* C10: validation fails exactly when the free disk or the memory is below
\* its configured minimum, the architecture is not a supported one, or the
\* host is native-capable and the run is not privileged; neither the Ubuntu
\* version, nor the container runtime, nor privilege on a container-required
\* host decides it.
C10_ValidationFailsIffIssue ==
    exit_code # None =>
        (exit_code = Some(1) <=>
            \/ system_info.disk_space_gb < Get(config.min_disk_space_gb, DefaultMinDisk)
            \/ system_info.memory_gb < Get(config.min_memory_gb, DefaultMinMemory)
            \/ system_info.architecture
                  \notin Get(config.supported_architectures, DefaultArchitectures)
            \/ (system_info.is_ubuntu /\ env.euid # 0))

C10_Witness ==
    /\ exit_code = Some(0)
    /\ ~system_info.is_ubuntu
    /\ env.euid # 0
    /\ ~docker.installed

IsPrefixOf(s, t) == Len(s) <= Len(t) /\ SubSeq(t, 1, Len(s)) = s

\* C11: every step of a run, rollback included, leaves what each of the four
\* journal sequences held as a prefix of what it holds afterwards: entries are
\* only appended, never removed or reordered.
C11_JournalAppendOnly ==
    [][/\ IsPrefixOf(installation_state.packages_installed,
                     installation_state'.packages_installed)
       /\ IsPrefixOf(installation_state.repositories_added,
                     installation_state'.repositories_added)
       /\ IsPrefixOf(installation_state.files_modified,
                     installation_state'.files_modified)
       /\ IsPrefixOf(installation_state.backup_files,
                     installation_state'.backup_files)]_vars

C11_Witness ==
    /\ rb.completed = 1
    /\ installation_state.packages_installed # <<>>
    /\ installation_state.repositories_added # <<>>
    /\ installation_state.files_modified # <<>>
    /\ installation_state.backup_files # <<>>
    /\ \E k \in 1..Len(rb.renames) : rb.renames[k].outcome = "renamed"


\* C12: when rollback starts reading the journal, and when a native run
\* reports success, every change of a recorded kind the run made to the host
\* has its journal entry: every package that was not on the host before is
\* in the installed-packages sequence, the repository definition file once
\* written is in the repositories sequence, the shell profile once changed is
\* in the modified-files sequence, and the backup file once created is in the
\* backup sequence.
C12_EveryChangeJournaled ==
    (NativeRun /\ (pc.at = "rollback" \/ (result.produced /\ result.success))) =>
        /\ (hostpkgs \ pre.hostpkgs)
              \subseteq Range(installation_state.packages_installed)
        /\ files[RepoListPath] # pre.files[RepoListPath] =>
              RepoListPath \in Range(installation_state.repositories_added)
        /\ files[BashrcPath] # pre.files[BashrcPath] =>
              BashrcPath \in Range(installation_state.files_modified)
        /\ files[BackupPath] # pre.files[BackupPath] =>
              BackupPath \in Range(installation_state.backup_files)


\* C13: as long as rollback has not run, a journal entry stands for a
\* mutation that succeeded: every package of the installed-packages sequence
\* is on the host, a recorded repository path names a file that was written,
\* and a recorded backup path names a file the copy created.
C13_JournalOnlyAfterSuccess ==
    (NativeRun /\ rb.runs = 0) =>
        /\ Range(installation_state.packages_installed) \subseteq hostpkgs
        /\ \A p \in Range(installation_state.repositories_added) : files[p].exists
        /\ \A p \in Range(installation_state.backup_files) : files[p].exists


\* the position of a label in the order in which the guarded block of
\* _install_ros2_native calls the steps; 0 for a label outside the steps
NativeStep(l) ==
    IF l \in {"update_system", "install_essentials"} THEN 1
    ELSE IF l \in {"uninstall", "autoremove"} THEN 2
    ELSE IF l \in {"repos_key", "repos_list", "repos_update"} THEN 3
    ELSE IF l \in {"packages_main", "packages_extra"} THEN 4
    ELSE IF l \in {"dev_tools", "rosdep_init", "rosdep_update"} THEN 5
    ELSE IF l \in {"env_backup", "env_append"} THEN 6
    ELSE IF l = "verify" THEN 7
    ELSE 0

\* C14: the native pipeline runs update, removal of prior installs,
\* repository setup, package install, dev tooling, profile patch and verify
\* in this order: the first step starts from the confirmation, a step is
\* followed by itself or by the next one, and from the moment a step raised
\* an unhandled failure the run is in no step any more.
C14_NativeStepsInOrder ==
    [][LET s == NativeStep(pc.at)
           t == NativeStep(pc'.at)
       IN /\ (t # 0 /\ s = 0) => (pc.at = "confirm" /\ t = 1)
          /\ (t # 0 /\ s # 0) => t \in {s, s + 1}
          /\ exc'.type # "none" => t = 0
          /\ (s # 0 /\ t = 0) =>
                IF exc'.type # "none" THEN pc'.at = "rollback"
                ELSE s = 7 /\ pc'.at = "done"]_vars

C14_Witness ==
    /\ pc.at = "rollback"
    /\ exc.command = TeeRepo
    /\ hostpkgs # {}


\* the position of a label in the order in which install_ros2_docker calls
\* its steps; 0 for a label outside the steps
DockerStep(l) ==
    IF l = "docker_install" THEN 1
    ELSE IF l = "docker_daemon" THEN 2
    ELSE IF l = "docker_build" THEN 3
    ELSE IF l = "docker_create" THEN 4
    ELSE IF l = "docker_wrapper" THEN 5
    ELSE IF l = "docker_verify" THEN 6
    ELSE 0

\* C15: the container pipeline runs install runtime, wait for the service,
\* build, create, wrapper and verify in this order; the runtime is installed
\* only when it is absent; once a step failed no later step is entered and
\* no further command is issued, and the result then produced is a failure
\* with exactly one error, the failure of that step.
C15_DockerStepsInOrder ==
    [][IsDockerMode(system_info) =>
        LET s == DockerStep(pc.at)
            t == DockerStep(pc'.at)
        IN /\ (t # 0 /\ s = 0) => (pc.at = "confirm" /\ t = 1)
           /\ (t # 0 /\ s # 0) => t = s + 1
           /\ exc'.type # "none" => t = 0
           /\ exc.type # "none" => issued' = issued
           /\ DockerInstallCmd \in (issued' \ issued) => ~docker.installed
           /\ (s # 0 /\ exc'.type # "none") => pc'.at = "except"
           /\ (pc.at = "except" /\ pc'.at = "done") =>
                 /\ ~result'.success
                 /\ result'.errors = <<exc>>]_vars

C15_Witness ==
    /\ IsDockerMode(system_info)
    /\ pc.at = "done"
    /\ exc.command = DockerBuildCmd
    /\ ~result.success
    /\ docker.installed /\ ~pre.docker.installed
    /\ ~docker.container


DockerArtefacts == {"installed", "dockerfile", "image", "container", "wrapper"}

\* C16: no step of a container run, the failure handling included, starts
\* the rollback procedure (so no backup is restored), issues a package
\* removal, or takes away what an earlier step of the run created: the
\* installed runtime, the build manifest, the image, the container and the
\* wrapper stay.
C16_DockerFailureLeavesArtefacts ==
    [][IsDockerMode(system_info) =>
          /\ rb' = NoRollback
          /\ \A c \in issued' : ~IsRemoval(c)
          /\ \A a \in DockerArtefacts :
                (docker[a] /\ ~pre.docker[a]) => docker'[a]]_vars

C16_Witness ==
    /\ IsDockerMode(system_info)
    /\ pc.at = "done"
    /\ ~result.success
    /\ exc.command = DockerExecCmd
    /\ ~pre.docker.installed
    /\ \A a \in DockerArtefacts : docker[a]


\* what a state of a run shows of its result
ResultShape ==
    /\ result.produced <=> pc.at \in {"done", "exited"}
    /\ (exc.type # "none" /\ ~result.produced) =>
          pc.at \in {"rollback", "rollback_restore", "except"}
    /\ result.produced =>
          IF result.success THEN result.errors = <<>> /\ exc.type = "none"
          ELSE /\ Len(result.errors) = 1
               /\ exc.type # "none" => result.errors = <<exc>>

\* C17: a run of install_ros2 produces one result and never replaces it; an
\* exception raised by a step is on its way to the except clause of the
\* pipeline until the result is produced, so none leaves install_ros2;
\* a successful result has no error and is produced by the last step, which
\* is entered only through all the steps before it; a failed result has
\* exactly one error, the exception that stopped the run or the cancellation.
C17_ExactlyOneResult ==
    [][/\ ResultShape'
       /\ result.produced => result' = result
       /\ (result'.produced /\ result'.success) =>
             (result.produced \/ pc.at \in {"verify", "docker_verify"})
       /\ NativeStep(pc'.at) > 1 =>
             NativeStep(pc.at) \in {NativeStep(pc'.at) - 1, NativeStep(pc'.at)}
       /\ DockerStep(pc'.at) > 1 =>
             DockerStep(pc.at) = DockerStep(pc'.at) - 1]_vars

C17_Witness ==
    /\ result.produced
    /\ ~result.success
    /\ rb.completed = 1
    /\ rb.failures >= 1
    /\ Len(result.errors) = 1

-----------------------------------------------------------------------------
(* The exit status of main *)

\* what a finished process shows of the way main went
ArgsParsed == ~ArgsRejected(args) /\ args.flags \cap {"help", "version"} = {}
ConfigLoaded == config # NoConfig
Interrupted == exc.type = "KeyboardInterrupt"
ValidationPassed == ValidateSystem(system_info, env, config, docker.installed)
ModeRequested == args.flags \cap {"validate_only", "dry_run"} # {}

\* C18 as stated: the exit code is 0 exactly when the installation result has
\* success=true, or validate-only/dry-run ran and validation passed, or
\* show-config was requested; it is 1 otherwise, and no other exit code is
\* produced by main
C18_ExitCodeZeroOrOne ==
    exit_code # None =>
        /\ exit_code \in {Some(0), Some(1)}
        /\ exit_code = Some(0) <=>
              \/ result.produced /\ result.success
              \/ ModeRequested /\ pc.at = "exited" /\ ConfigLoaded /\ ValidationPassed
              \/ "show_config" \in args.flags

\* C18 (amended): when the parser stops the process the exit code is 0 for
\* --help/--version and 2 for a rejected argument, and no configuration was
\* loaded; on every other command line the exit code is 0 or 1, and it is 0
\* exactly when the configuration loaded, no interrupt arrived, and the mode
\* that ran ended well: show-config, else validate-only/dry-run with a passed
\* validation, else an installation whose result has success=true
C18_ExitCodeByOutcome ==
    exit_code # None =>
        IF ~ArgsParsed
        THEN /\ exit_code \in {Some(0), Some(2)}
             /\ exit_code = Some(2) => ArgsRejected(args)
             /\ exit_code = Some(0) => args.flags \cap {"help", "version"} # {}
             /\ ~ConfigLoaded /\ config_file = pre.config_file
        ELSE /\ exit_code \in {Some(0), Some(1)}
             /\ exit_code = Some(0) <=>
                   /\ ConfigLoaded
                   /\ ~Interrupted
                   /\ IF "show_config" \in args.flags THEN TRUE
                      ELSE IF ModeRequested THEN ValidationPassed
                      ELSE result.produced /\ result.success

\* an installation that succeeded and exited 0
C18_Witness ==
    /\ pc.at = "exited"
    /\ exit_code = Some(0)
    /\ result.produced /\ result.success
    /\ ArgsParsed /\ args.flags = {}


-----------------------------------------------------------------------------
(* The tier of the configuration *)

\* C19: a load that succeeds yields a tier in {minimal, base, desktop,
\* desktop-full}; a configuration whose tier is outside that set is rejected
\* at load with ConfigurationError and never reaches the package-install step
C19_TierValidatedAtLoad ==
    /\ ConfigLoaded => config.package_set \in Tiers
    /\ pc.at \in {"packages_main", "packages_extra"} => config.package_set \in Tiers


-----------------------------------------------------------------------------
(* Loading a configuration document the validation rejects *)

\* the document at the path when the process started lacks a required
\* section or names a distribution outside the supported ones
RejectedDocument ==
    /\ pre.config_file.exists
    /\ pre.config_file.doc.wellformed
    /\ \/ {"installation", "logging"} \ pre.config_file.doc.sections # {}
       \/ pre.config_file.doc.ros_distro \notin
              {"", "kilted", "jazzy", "iron", "humble", "rolling"}

\* C20: for every existing configuration document that lacks the installation
\* or the logging section, or whose distribution identifier is outside
\* {kilted, jazzy, iron, humble, rolling}, loading fails with
\* ConfigurationError, no file is written, no journal or pipeline state is
\* created, and the process exits 1
C20_RejectedDocumentFailsLoad ==
    RejectedDocument =>
        /\ ~ConfigLoaded
        /\ pc.at \in {"main", "construct", "exited"}
        /\ config_file = pre.config_file
        /\ files = pre.files /\ hostpkgs = pre.hostpkgs /\ docker = pre.docker
        /\ installation_state = EmptyJournal /\ initial_state = EmptyJournal
        /\ issued = {} /\ ~result.produced /\ rb = NoRollback
        /\ (pc.at = "exited" /\ ArgsParsed /\ ~Interrupted) =>
              /\ exc.type = "ConfigurationError"
              /\ exit_code = Some(1)

\* the load of a document without the logging section has failed
C20_Witness ==
    /\ RejectedDocument
    /\ pre.config_file.doc.sections = {"installation"}
    /\ pc.at = "exited"
    /\ exc.type = "ConfigurationError"
    /\ exit_code = Some(1)


-----------------------------------------------------------------------------
(* Retries of the commands of the pipelines *)

\* the failure in flight is the failure of an external command
CommandFailure == exc.type \in {"TimeoutExpired", "CalledProcessError"}

\* C21: in both pipelines a command that fails is re-attempted up to the
\* configured retry ceiling before its failure becomes fatal for the run: with
\* a ceiling of n >= 2 the failure that ends a run is the one of attempt n - 1,
\* never the one of the first attempt of a command that was not run again
C21_FatalOnlyAfterCeiling ==
    (CommandFailure /\ EffectiveRetries(None, config) >= 2) =>
        exc.attempt = EffectiveRetries(None, config) - 1


-----------------------------------------------------------------------------
(* Best-effort packages *)

\* the package the loop over additional_packages or dev_packages is at
OptionalPackage ==
    IF pc.at = "packages_extra" THEN AdditionalPackages[pc.i] ELSE DevPackages[pc.i]

\* where the pipeline goes after the package the loop is at
AfterOptionalPackage ==
    IF pc.at = "packages_extra"
    THEN IF pc.i < Len(AdditionalPackages) THEN [pc EXCEPT !.i = @ + 1]
         ELSE Label("dev_tools")
    ELSE IF pc.i < Len(DevPackages) THEN [pc EXCEPT !.i = @ + 1]
         ELSE Label("rosdep_init")

\* C22: a failure (after all retries) to install an extension package of the
\* top two tiers or a developer-tooling package does not abort the native
\* pipeline: no rollback is triggered, no failure is left in flight, the
\* package is not added to the journal, and the pipeline goes on with the next
\* package or the next step
C22_OptionalFailureTolerated ==
    [][(/\ pc.at \in {"packages_extra", "dev_tools"}
        /\ EffectiveRetries(None, config) >= 1
        /\ OptionalPackage \notin hostpkgs')
       => /\ installation_state' = installation_state
          /\ exc' = NoExc
          /\ rb' = NoRollback
          /\ pc' = AfterOptionalPackage]_vars

\* a run of a top tier in which an extension package and a developer package
\* failed to install, and which ended with success=true
C22_Witness ==
    /\ result.produced /\ result.success
    /\ InstallsAdditional(config.package_set)
    /\ EffectiveRetries(None, config) >= 1
    /\ AdditionalPackages[1] \notin hostpkgs
    /\ DevPackages[1] \notin hostpkgs
    /\ Range(MainPackages(config.package_set)) \subseteq hostpkgs
    /\ rb = NoRollback


-----------------------------------------------------------------------------
(* The warnings of the result *)

\* the best-effort packages of a native run, in the order their installs are
\* attempted
BestEffortPackages ==
    (IF InstallsAdditional(config.package_set) THEN AdditionalPackages ELSE <<>>)
        \o DevPackages

\* C23: every failure a step downgrades to a warning appears, in order of
\* occurrence, in the warnings list of the result: after a successful native
\* run the best-effort packages that failed to install are, in order, the
\* entries the warnings list has for packages
C23_DowngradedFailuresInWarnings ==
    (/\ result.produced /\ result.success
     /\ NativeRun
     /\ EffectiveRetries(None, config) >= 1)
    => SelectSeq(result.warnings, LAMBDA w : w \in Range(BestEffortPackages))
         = SelectSeq(BestEffortPackages, LAMBDA p : p \notin hostpkgs)


-----------------------------------------------------------------------------
(* The environment-setup block of the shell profile *)

\* the number of setup blocks in the profile, counted by their signature line
BlockCount(content) == Cardinality({i \in 1..Len(content) : content[i] = Ros2SetupBlock})

\* C24: executing the profile-append step any number of times leaves exactly
\* one environment-setup block in the shell profile; an execution that finds
\* the signature line already present leaves the profile unchanged and
\* records no modified file in the journal
C24_ProfileAppendIdempotent ==
    [][(pc.at = "env_append" /\ pc'.at # "env_append")
       => /\ BlockCount(files'[BashrcPath].content) = 1
          /\ HasSetupLine(files[BashrcPath].content) =>
                /\ files' = files
                /\ installation_state' = installation_state]_vars

\* the step ran three times on a profile that had no block: one block, one
\* journal entry for the modified file
C24_Witness ==
    /\ pc.at = "verify"
    /\ Len(installation_state.backup_files) >= 3
    /\ ~HasSetupLine(pre.files[BashrcPath].content)
    /\ BlockCount(files[BashrcPath].content) = 1
    /\ installation_state.files_modified = <<BashrcPath>>


-----------------------------------------------------------------------------
(* The run in which nothing fails *)

\* the error of a failed result names a command that failed, or the user
\* who declined
CommandFailedOrDeclined(e) ==
    \/ e.type \in {"Cancelled", "TimeoutExpired", "CalledProcessError"}
    \/ e.type = "InstallationError" /\ e.command = TestRos2

\* C25: with every command succeeding, a compliant snapshot and tier minimal,
\* the native run ends with success=true, an empty error list,
\* packages_installed >= 2 and both minimal-tier packages in the journal; a
\* run on those inputs that ends otherwise names the command that failed
C25_MinimalRunSucceeds ==
    (/\ result.produced
     /\ NativeRun
     /\ config.package_set = "minimal"
     /\ EffectiveRetries(None, config) >= 1
     /\ ValidateSystem(system_info, env, config, docker.installed))
    => IF result.success
       THEN /\ result.errors = <<>>
            /\ result.packages_installed >= 2
            /\ {"ros-kilted-ros-core", "ros-kilted-ros2cli"}
                  \subseteq Range(installation_state.packages_installed)
       ELSE /\ Len(result.errors) = 1
            /\ CommandFailedOrDeclined(result.errors[1])

\* the run of tier minimal in which every command succeeded
C25_Witness ==
    /\ result.produced /\ result.success
    /\ NativeRun
    /\ config.package_set = "minimal"
    /\ result.packages_installed = 2
    /\ Range(EssentialPackages) \cup Range(DevPackages)
          \cup {"ros-kilted-ros-core", "ros-kilted-ros2cli"} \subseteq hostpkgs
    /\ files[KeyringPath].exists /\ files[RepoListPath].exists
    /\ files[BackupPath].exists
    /\ HasSetupLine(files[BashrcPath].content)


-----------------------------------------------------------------------------
(* A user interrupt during the native pipeline *)

\* the interrupt arrives in this step
InterruptArrives == exc'.type = "KeyboardInterrupt" /\ exc.type # "KeyboardInterrupt"

\* C26: a user interrupt arriving while a native pipeline step is executing
\* aborts the run immediately with exit code 1: no later step starts, no
\* result is produced, and the rollback guard does not run, so every mutation
\* already completed stays in place
C26_InterruptAbortsWithoutRollback ==
    [][/\ (InterruptArrives /\ NativeStep(pc.at) >= 1) =>
            /\ exit_code' = Some(1)
            /\ pc'.at = "exited"
            /\ ~result'.produced
            /\ rb' = NoRollback
            /\ files' = files /\ hostpkgs' = hostpkgs
            /\ installation_state' = installation_state
       /\ pc.at # "exited"]_vars

\* interrupted after the packages were installed: they are still on the host
\* and in the journal, and nothing was rolled back
C26_Witness ==
    /\ pc.at = "exited"
    /\ Interrupted
    /\ exit_code = Some(1)
    /\ ~result.produced
    /\ rb = NoRollback
    /\ installation_state.packages_installed # <<>>
    /\ Range(installation_state.packages_installed) \subseteq hostpkgs
    /\ files[RepoListPath].exists


-----------------------------------------------------------------------------
(* Concurrent invocations of the executor *)

\* the invocation is over
Finished(f) == f.status \in {"returned", "raised", "none"}

\* success or failure, and the number of attempts
Outcome(f) == <<f.status, f.tries>>

\* the invocation of f's command with nothing else running
Alone(f, beh) == RunCommand(f.command, None, None, config, beh)

\* C27: when two invocations of the executor run concurrently on independent
\* commands, the outcome of each (success or failure, and its number of
\* attempts) is the same as if it ran alone, whatever the other does,
\* the cleanup after a failed attempt included
C27_ConcurrentOutcomesIndependent ==
    /\ Finished(ex) => Outcome(ex) = Outcome(Alone(ex, pre.behaviours[1]))
    /\ Finished(peer) => Outcome(peer) = Outcome(Alone(peer, pre.behaviours[2]))


-----------------------------------------------------------------------------
(* The choice of the pipeline *)

DockerCommands ==
    {DockerInstallCmd, DockerBuildCmd, DockerRemoveCmd, DockerCreateCmd,
     DockerStartCmd, DockerExecCmd}

\* the run is inside the native pipeline, its rollback included
InNative(l) == NativeStep(l) >= 1 \/ l \in {"rollback", "rollback_restore"}

\* C28: install_ros2 runs the native pipeline if and only if the snapshot
\* says is_ubuntu, and otherwise the container pipeline; exactly one of the
\* two runs per call, and the choice depends on nothing but the platform
\* family: the first step after the confirmation is the one of the pipeline
\* of the family, and a run inside one pipeline has issued no command and
\* changed no state of the other
C28_PipelineByPlatformFamily ==
    [][/\ (pc.at = "confirm" /\ pc'.at # "done") =>
             pc'.at = IF system_info.is_ubuntu THEN "update_system"
                      ELSE "docker_install"
       /\ InNative(pc'.at) =>
             /\ system_info.is_ubuntu
             /\ issued' \cap DockerCommands = {}
             /\ docker' = pre.docker
       /\ DockerStep(pc'.at) >= 1 =>
             /\ ~system_info.is_ubuntu
             /\ issued' \subseteq DockerCommands
             /\ installation_state' = EmptyJournal
             /\ rb' = NoRollback
       /\ \A s1 \in Snapshots, s2 \in Snapshots :
             s1.is_ubuntu = s2.is_ubuntu => IsDockerMode(s1) = IsDockerMode(s2)]_vars

\* a host that is not Ubuntu, taken through the container pipeline to its end
C28_Witness ==
    /\ ~system_info.is_ubuntu
    /\ result.produced /\ result.success
    /\ docker.container /\ docker.wrapper
    /\ DockerBuildCmd \in issued
    /\ installation_state = EmptyJournal


-----------------------------------------------------------------------------
(* The modes that only validate *)

\* C29: in validate-only and in dry-run mode, whatever the validation
\* outcome, no pipeline step of either pipeline is executed, no host-mutating
\* command is issued and the journal stays empty
C29_ModesChangeNothing ==
    ModeRequested =>
        /\ NativeStep(pc.at) = 0 /\ DockerStep(pc.at) = 0
        /\ pc.at \notin {"install_ros2", "confirm", "rollback",
                         "rollback_restore", "except", "done"}
        /\ issued = {}
        /\ installation_state = EmptyJournal
        /\ rb = NoRollback
        /\ ~result.produced
        /\ files = pre.files /\ hostpkgs = pre.hostpkgs /\ docker = pre.docker

\* a dry run on a host that passes validation has ended, and the host is as
\* it was
C29_Witness ==
    /\ args.flags = {"dry_run"}
    /\ pc.at = "exited"
    /\ ConfigLoaded
    /\ ValidationPassed
    /\ system_info.is_ubuntu
    /\ exit_code = Some(0)
    /\ issued = {} /\ hostpkgs = pre.hostpkgs


-----------------------------------------------------------------------------
(* The backoff of the executor *)

-----------------------------------------------------------------------------
(* The cleanup of the executor *)

\* C31: in _run_command the package-manager cleanup runs after a failed
\* attempt if and only if the command touches the package manager, and it is
\* over before the next attempt starts; it never runs after a successful
\* attempt, and the first successful attempt ends the invocation: the
\* cleanups are as many as the failed attempts for a command of the package
\* manager and none for any other, and an invocation has one successful
\* attempt exactly when it has returned, that attempt being its last
C31_CleanupAfterFailuresOnly ==
    /\ ex.cleanups =
          IF \E i \in 1..Len(ex.command) : ex.command[i] \in {"apt-get", "dpkg"}
          THEN ex.tries - ex.oks
          ELSE 0
    /\ ex.oks \in {0, 1}
    /\ ex.oks = 1 <=> ex.status = "returned"
    /\ ex.status = "returned" => ex.last = "ok" /\ ex.tries = ex.attempt + 1
    /\ ex.status = "running" => ex.tries = ex.attempt

\* apt-get update failed once, was cleaned up after, and succeeded at the
\* second attempt
C31_Witness ==
    /\ ex.command = AptUpdate
    /\ ex.status = "returned"
    /\ ex.tries = 2
    /\ ex.cleanups = 1
    /\ ex.slept = <<1>>


-----------------------------------------------------------------------------
(* The backup of the shell profile *)

\* the step appends the setup block to a profile that exists
AppendsToExistingProfile ==
    /\ pc.at = "env_append"
    /\ files[BashrcPath].exists
    /\ files'[BashrcPath] # files[BashrcPath]

\* C32: whenever the profile-patch step appends to an existing shell profile
\* with backup_configs enabled, a backup copy of the profile was created and
\* its path recorded in the journal before the append, so that a rollback
\* finds a backup holding the content the profile had before the append
C32_BackupBeforeAppend ==
    [][(AppendsToExistingProfile /\ config.backup_configs)
       => /\ BackupPath \in Range(installation_state.backup_files)
          /\ files[BackupPath].exists
          /\ files[BackupPath].content = files[BashrcPath].content]_vars


-----------------------------------------------------------------------------
(* The verification step *)

\* C33: the verification step makes the native run fail, and triggers the
\* rollback, if and only if the install root directory is missing or the help
\* invocation fails after its retries; a key package missing from the package
\* database never makes the run fail
C33_VerifyFatalOnlyOnRootOrHelp ==
    [][(pc.at = "verify" /\ pc'.at # "verify")
       => IF ~RosPathExists(hostpkgs)
          THEN /\ pc'.at = "rollback"
               /\ exc' = Exception("InstallationError", <<"/opt/ros/kilted">>)
               /\ ~result'.produced
          ELSE \/ /\ pc'.at = "rollback"
                  /\ exc' = Exception("InstallationError", TestRos2)
                  /\ TestRos2 \in issued'
                  /\ ~result'.produced
               \/ /\ pc'.at = "done"
                  /\ result'.produced /\ result'.success
                  /\ exc' = NoExc]_vars

\* a run that succeeded although two of the key packages are not on the host
C33_Witness ==
    /\ NativeRun
    /\ result.produced /\ result.success
    /\ EffectiveRetries(None, config) >= 1
    /\ TestRos2 \in issued
    /\ {"python3-rosdep", "python3-colcon-common-extensions"} \cap hostpkgs = {}


-----------------------------------------------------------------------------
(* Waiting for the container runtime service *)

\* C34: waiting for the container runtime service always terminates: it
\* returns as soon as one poll finds the service reachable, and otherwise
\* raises InstallationError once the timeout has elapsed; the image build step
\* is never started in a run where the service was found unreachable and
\* never became reachable
C34_DaemonWaitTerminates ==
    /\ <>(pc.at \notin WaitLabels)
    /\ [][/\ (pc.at = "wait_poll" /\ docker'.running) => pc'.at = "docker_build"
          /\ (pc.at = "wait_poll" /\ ~docker'.running) => pc'.at = "wait_sleep"
          /\ (pc.at \in WaitLabels /\ pc'.at = "except")
                => /\ exc' = Exception("InstallationError", <<"daemon">>)
                   /\ timer.now >= timer.deadline
                   /\ ~docker.running
          /\ (pc.at \in WaitLabels /\ pc'.at = "docker_build") => docker'.running
          /\ DockerBuildCmd \in issued' => docker.running]_vars
    /\ [](timer.now < timer.deadline + PollTimeout + PollSleep \/ timer.deadline = 0)

\* the service answered a poll after several unanswered ones, and the build
\* was started
C34_Witness ==
    /\ DockerBuildCmd \in issued
    /\ timer.deadline > 0
    /\ timer.now > timer.deadline - PollSleep


-----------------------------------------------------------------------------
(* The package count of the result *)

\* C35: in a successful native run, the packages_installed of the result
\* equals the number of package identifiers recorded in the journal at the
\* moment the result is constructed
C35_CountEqualsJournal ==
    [][(NativeRun /\ ~result.produced /\ result'.produced /\ result'.success)
       => result'.packages_installed = Len(installation_state'.packages_installed)]_vars


-----------------------------------------------------------------------------
(* Removal of prior installations *)

\* C36: a failure while removing prior installations in step 2 (the removal
\* command failing after all its retries) is absorbed by the step: it does not
\* trigger rollback, and the pipeline continues with repository setup
C36_RemovalFailureAbsorbed ==
    [][(pc.at \in {"uninstall", "autoremove"} /\ pc'.at # pc.at)
       => /\ pc'.at \in {"autoremove", "repos_key"}
          /\ exc' = NoExc
          /\ rb' = rb
          /\ ~result'.produced
          /\ installation_state' = installation_state
          /\ (/\ pc.at = "uninstall"
              /\ AptAutoremoveRos \in issued'
              /\ EffectiveRetries(None, config) >= 1
              /\ hostpkgs' \cap AllRosPackages # {}) => pc'.at = "repos_key"]_vars

\* the removal command failed after its retries and the run is at the
\* repository setup, no rollback started
C36_Witness ==
    /\ pc.at = "repos_key"
    /\ AptAutoremoveRos \in issued
    /\ AptAutoremove \notin issued
    /\ EffectiveRetries(None, config) >= 1
    /\ hostpkgs \cap AllRosPackages # {}
    /\ exc = NoExc
    /\ rb = NoRollback


-----------------------------------------------------------------------------
(* The fallback snapshot *)

\* C37: if gathering the system snapshot fails, the fallback snapshot always
\* selects the container strategy (even on a native-capable host) and, under
\* the default validation thresholds, fails validation, so the run ends with
\* success=false without executing any pipeline step
C37_FallbackSnapshotFailsValidation ==
    pre.fails =>
        /\ IsDockerMode(system_info)
        /\ ~ValidateSystem(system_info, env, config, docker.installed)
        /\ pc.at \in {"install_ros2", "except", "done"}
        /\ pc.at # "install_ros2" => exc = Exception("ValidationError", <<>>)
        /\ pc.at = "done" <=> result.produced
        /\ result.produced => ~result.success /\ result.packages_installed = 0
        /\ issued = {}
        /\ installation_state = EmptyJournal
        /\ files = pre.files /\ hostpkgs = pre.hostpkgs /\ docker = pre.docker

\* the run ended on a native-capable host, started as root, whose snapshot
\* could not be gathered
C37_Witness ==
    /\ pre.fails
    /\ pre.host.is_ubuntu /\ pre.host.disk_space_gb = 50
    /\ env.euid = 0
    /\ pc.at = "done"
    /\ result.produced /\ ~result.success


-----------------------------------------------------------------------------
(* Backup naming *)

\* C38: backup naming round-trips: for every original path p (including
\* paths that themselves contain the text `.backup.`) and every run
\* identifier s, the original path that rollback derives from the backup path
\* p + `.backup.` + s is exactly p
C38_BackupNameRoundTrips ==
    pc.at = "except" =>
        /\ rb.renames[1].backup = pre.path \o <<".backup.", pre.session_id>>
        /\ rb.renames[1].original = pre.path
        /\ rb.renames[1].text = Text(pre.path)

\* the round trip of a path that ends in the separator's first part after
\* containing the separator itself
C38_Witness ==
    /\ pc.at = "except"
    /\ pre.path = <<"/home/user/", ".backup.", ".backup">>
    /\ rb.renames[1].original = pre.path
    /\ Len(rb.renames[1].text) = 6


====
